---- MODULE Spec2Model ----
(***************************************************************************)
(* A model of the core of wxauto4:                                         *)
(*   - utils/lock.py     LockManager (process lock, thread RLock, asyncio  *)
(*                       lock) and the uilock decorator;                   *)
(*   - msgs/base.py      the uilock-wrapped HumanMessage operations;       *)
(*   - moment.py         MomentActionMenu._locate (polling search),        *)
(*                       MomentList._locate_list (breadth-first search),   *)
(*                       MomentItem._ensure_parsed (feed-post parser).     *)
(*                       MomentComment.from_text, _split_like_names,       *)
(*                       MomentList.refresh / get_items (parse cache);     *)
(*   - ui/sessionbox.py  SessionElement.name and unread_count,             *)
(*                       SessionBox.switch_chat and open_separate_window;  *)
(*   - msgs/base.py      Message.__eq__, __hash__, match and the field     *)
(*                       accessors, BaseMessage.__init__ and exists;       *)
(*   - moment.py         Moment.Like and Comment, MomentActionMenu,        *)
(*                       MomentCommentDialog.                              *)
(* Each part has its own specification over the shared variables; the      *)
(* parts a specification does not exercise stay at their initial values.   *)
(***************************************************************************)
EXTENDS Integers, Sequences, FiniteSets, TLC

(***************************************************************************)
(* Bounds of the model.                                                    *)
(***************************************************************************)
NumThreads == 2     \* synchronous caller threads
NumTasks == 2       \* asyncio tasks
NumLoops == 2       \* event loops, each running in a thread of its own
MaxOps == 1         \* operations each context starts
MaxTimeout == 10    \* largest timeout passed to _locate, in ticks of 10 ms
MaxCallTicks == 1   \* longest accessibility call, in ticks
MaxOversleep == 1   \* longest overshoot of time.sleep, in ticks
MaxWins == 2        \* windows one enumeration returns
MaxKids == 2        \* children of one window
MaxNodes == 3       \* controls below the root of the accessibility tree
MaxLines == 3       \* raw lines of a feed post after its first line
MaxFailures == 1    \* times the binding raises while one post is parsed
MaxSessionLines == 3 \* raw lines of the text of a session
MaxConditions == 2  \* keyword arguments of one call of Message.match
MaxRaiseAt == 18    \* calls to the binding one operation makes before one raises
MaxItems == 2       \* items of the list of search results
MaxButtons == 3     \* children of the action menu of a post
MaxAppear == 6      \* latest tick of 100 ms at which the comment dialog appears
MaxSpins == 2       \* iterations of the loop of open_separate_window told apart

\* time.sleep(0.05) of MomentActionMenu._locate, in ticks of 10 ms
PollInterval == 5

\* dialog.exists(0.5) of Moment.Comment, in ticks of 100 ms
DialogWait == 5

NoOne == 0
NoThread == <<"none", 0>>

Threads == 1..NumThreads
Tasks == (NumThreads + 1)..(NumThreads + NumTasks)
Ctx == Threads \cup Tasks
Loops == 1..NumLoops
LockIds == 1..(NumTasks * MaxOps)

VARIABLES
    \* ---- LockManager (utils/lock.py) ----
    processLock,    \* LockManager.process_lock: NoOne or the context holding it
    rlockOwner,     \* LockManager.thread_lock: owning OS thread, NoThread when free
    rlockCount,     \* LockManager.thread_lock: recursion level
    asyncLock,      \* LockManager._async_lock: 0 (None) or a lock object
    lockLoop,       \* asyncio.Lock._loop of each lock object, 0 when None
    lockHeld,       \* asyncio.Lock._locked: NoOne or the task holding it
    lockWaiters,    \* asyncio.Lock._waiters, first come first served
    nextLock,       \* identity of the next asyncio.Lock() constructed
    lazyBind,       \* asyncio.Lock binds _loop on first contention (CPython >= 3.10)
                    \* instead of at construction (CPython < 3.10)
    \* ---- the contexts calling into the library ----
    loopOf,         \* the event loop each task runs on
    running,        \* the task each event loop thread is executing, NoOne when idle
    pc,             \* position of each context
    op,             \* operation each context is executing
    frames,         \* open calls of each context, innermost last, by locking mode
    myLock,         \* the asyncio lock `async with` holds a reference to
    touches,        \* UI touches issued by the current operation
    nested,         \* the operation has made its nested uilock-wrapped call
    exc,            \* an exception is propagating out of the current frame
    errExits,       \* some operation has ended by an exception
    opsLeft,        \* operations the context may still start
    menu,           \* operations of the public interface the callers use
    active,         \* counter incremented on section entry, decremented on exit
    sawForeign,     \* _get_async_lock has met a stored lock bound to another loop
    \* ---- MomentActionMenu._locate (moment.py) ----
    locPc,          \* position in _locate
    now,            \* time.time(), in ticks
    t0,             \* t0 of _locate
    timeout,        \* the timeout argument, in ticks
    wins,           \* the list find_all_windows_from_root returned
    locResult,      \* how _locate ended: "found", "notfound" (None) or "raised"
    locWin,         \* index in wins of the window returned, 0 when none
    neverMatched,   \* no enumerated window has had a child with a menu caption
    \* ---- MomentList._locate_list (moment.py) ----
    children,       \* GetChildren() of each control, in child order; 0 is the root
    ctype,          \* "moment": a ListControl with Moment in its class name or
                    \* automation id; "list": another ListControl; "other"
    named,          \* the control's Name is the comment keyword
    fault,          \* the call of the binding that raises: <<"children", n>>,
                    \* <<"name", n>> or <<"none", 0>>
    queue,          \* queue of _locate_list
    visited,        \* visited of _locate_list
    bfsPc,          \* position in _locate_list
    bfsResult,      \* the control returned, 0 for None
    tested,         \* times each control has been tested against the predicate
    expanded,       \* times the children of each control have been enqueued
    popped,         \* iterations of the loop of _locate_list
    \* ---- MomentItem (moment.py) ----
    rawText,        \* control.Name of the post, as its raw lines
    parsed,         \* MomentItem._parsed
    nickname,       \* MomentItem.nickname
    content,        \* MomentItem.content
    itemTime,       \* MomentItem.time
    likesLine,      \* the line MomentItem.likes is split from
    commentLines,   \* the lines MomentItem.comments are built from
    imageCount,     \* MomentItem.image_count
    isAd,           \* MomentItem.is_advertisement
    handled,        \* the branch of the loop that consumed each line, last pass
    failures,       \* errors the binding has raised during _ensure_parsed
    \* ---- MomentList (moment.py) ----
    listItems,      \* MomentList._items: "None", or "list" holding the post
    parsedFrom,     \* the text the post was parsed from when _parsed was set
    earlier,        \* the parses of the posts get_items has replaced
    \* ---- calls of the functions without state ----
    callArg,        \* the function called and its arguments
    callRet,        \* the value it returned
    callDone        \* the call has returned

tierVars == <<processLock, rlockOwner, rlockCount>>
asyncVars == <<asyncLock, lockLoop, lockHeld, lockWaiters, nextLock>>
locVars == <<locPc, now, t0, timeout, wins, locResult, locWin, neverMatched>>
treeVars == <<children, ctype, named, fault>>
bfsVars == <<treeVars, queue, visited, bfsPc, bfsResult, tested, expanded, popped>>
fieldVars == <<nickname, content, itemTime, likesLine, commentLines, imageCount, isAd>>
cacheVars == <<listItems, parsedFrom, earlier>>
itemVars == <<rawText, parsed, fieldVars, handled, failures, cacheVars>>
callVars == <<callArg, callRet, callDone>>
\* what no step of the lock part changes
envVars == <<lazyBind, loopOf, menu, locVars, bfsVars, itemVars, callVars>>
lockVars == <<tierVars, asyncVars, envVars>>
bodyVars == <<op, touches, nested, opsLeft>>
ctxVars == <<running, pc, frames, myLock, exc, errExits, active, sawForeign, bodyVars>>
vars == <<lockVars, ctxVars>>


(***************************************************************************)
(* utils/lock.py and the operations wrapped (or not wrapped) by uilock.     *)
(***************************************************************************)

\* How an operation of the public interface takes the actor lock:
\*   "sync"  - wrapped by uilock's sync_wrapper  (with LockManager.acquire())
\*   "async" - wrapped by uilock's async_wrapper (async with acquire_async())
\*   "none"  - not wrapped at all
SyncLockedOps == {"select_option", "forward"}
UnlockedOps == {"Like"}
AsyncOps == {"async_fn"}

Mode(o) ==
    CASE o \in SyncLockedOps -> "sync"
      [] o \in AsyncOps -> "async"
      [] o \in UnlockedOps -> "none"

\* Clicks and key injections an operation issues when every step succeeds.
\*   HumanMessage.select_option: right click, menu.select
\*   HumanMessage.forward: select_option (nested), SelectContactWnd.send
\*   Moment.Like: action button click, like button click, Esc
TouchesOf(o) ==
    CASE o = "select_option" -> 2
      [] o = "forward" -> 3
      [] o = "Like" -> 3
      [] o = "async_fn" -> 1

\* A thread calls the synchronous operations; a task awaits a wrapped
\* coroutine or calls a wrapped synchronous operation from its event loop.
OpsFor(c) == menu \cap (IF c \in Tasks THEN AsyncOps \cup {"select_option"}
                         ELSE SyncLockedOps \cup UnlockedOps)

\* The OS thread a context runs on: its own for a synchronous caller, the
\* thread of its event loop for a task.
ThreadOf(c) == IF c \in Tasks THEN <<"loop", loopOf[c]>> ELSE <<"thread", c>>

\* A task executes only while its event loop runs it; a thread always can.
CanRun(c) == IF c \in Threads THEN TRUE ELSE running[loopOf[c]] = c
CanStart(c) == IF c \in Threads THEN TRUE ELSE running[loopOf[c]] = NoOne

Top(c) == frames[c][Len(frames[c])]
Front(s) == SubSeq(s, 1, Len(s) - 1)

\* Touches the innermost open call has to issue: a nested select_option its
\* own two, the outer operation its total.
BodyTarget(c) == IF Len(frames[c]) = 2 THEN 2 ELSE TouchesOf(op[c])

\* _locate has not been called.
LocIdle ==
    /\ locPc = "idle"
    /\ now = 0
    /\ t0 = 0
    /\ timeout = 0
    /\ wins = <<>>
    /\ locResult = "none"
    /\ locWin = 0
    /\ neverMatched = TRUE

\* No function is being called.
CallIdle ==
    /\ callArg = [fn |-> "none"]
    /\ callRet = <<>>
    /\ callDone = FALSE

\* MomentItem.__init__: the fields of a post not parsed yet.
ItemFresh ==
    /\ parsed = FALSE
    /\ nickname = <<>>
    /\ content = <<>>
    /\ itemTime = <<>>
    /\ likesLine = <<>>
    /\ commentLines = <<>>
    /\ imageCount = 0
    /\ isAd = FALSE
    /\ handled = <<>>
    /\ failures = 0

\* MomentList.get_items has returned the post, and no parse is on record.
CacheIdle ==
    /\ listItems = "list"
    /\ parsedFrom = <<>>
    /\ earlier = {}

Nodes == 1..MaxNodes

\* _locate_list has not been called; no tree is attached.
BfsIdle ==
    /\ children = [n \in 0..MaxNodes |-> <<>>]
    /\ ctype = [n \in Nodes |-> "other"]
    /\ named = [n \in Nodes |-> FALSE]
    /\ fault = <<"none", 0>>
    /\ queue = <<>>
    /\ visited = {}
    /\ bfsPc = "idle"
    /\ bfsResult = 0
    /\ tested = [n \in Nodes |-> 0]
    /\ expanded = [n \in Nodes |-> 0]
    /\ popped = 0

LockInit ==
    /\ processLock = NoOne
    /\ rlockOwner = NoThread
    /\ rlockCount = 0
    /\ asyncLock = 0
    /\ lockLoop = [k \in LockIds |-> 0]
    /\ lockHeld = [k \in LockIds |-> NoOne]
    /\ lockWaiters = [k \in LockIds |-> <<>>]
    /\ nextLock = 1
    /\ lazyBind \in BOOLEAN
    /\ loopOf \in {f \in [Tasks -> Loops] : f[NumThreads + 1] = 1}
    /\ running = [l \in Loops |-> NoOne]
    /\ pc = [c \in Ctx |-> "idle"]
    /\ op = [c \in Ctx |-> "none"]
    /\ frames = [c \in Ctx |-> <<>>]
    /\ myLock = [c \in Ctx |-> 0]
    /\ touches = [c \in Ctx |-> 0]
    /\ nested = [c \in Ctx |-> FALSE]
    /\ exc = [c \in Ctx |-> FALSE]
    /\ errExits = FALSE
    /\ opsLeft = [c \in Ctx |-> MaxOps]
    /\ active = 0
    /\ sawForeign = FALSE

FirstPc(m) ==
    CASE m = "sync" -> "acqProc"
      [] m = "async" -> "getAsync"
      [] m = "none" -> "in"

\* A context calls an operation of the public interface.
StartOp(c) ==
    /\ pc[c] = "idle"
    /\ opsLeft[c] > 0
    /\ CanStart(c)
    /\ \E o \in OpsFor(c) :
        /\ op' = [op EXCEPT ![c] = o]
        /\ frames' = [frames EXCEPT ![c] = <<Mode(o)>>]
        /\ pc' = [pc EXCEPT ![c] = FirstPc(Mode(o))]
    /\ opsLeft' = [opsLeft EXCEPT ![c] = @ - 1]
    /\ running' = IF c \in Tasks THEN [running EXCEPT ![loopOf[c]] = c] ELSE running
    /\ UNCHANGED <<lockVars, myLock, exc, errExits, active, sawForeign, touches, nested>>

\* lock.py:36  lock is None or (loop and getattr(lock, "_loop", loop) is not loop)
\* Fault: the loop comparison left out, the stored lock reused whenever there is one.
NeedFresh_IgnoreLoop(lock, loop) == lock = 0
NeedFresh(lock, loop) ==
    \/ lock = 0
    \/ (loop # 0 /\ lockLoop[lock] # loop)

\* lock.py:25-39  _get_async_lock.  asyncio.Lock() records the current loop
\* at construction before CPython 3.10 and leaves _loop None until first
\* contention from 3.10 on.  The read and the write of cls._async_lock are
\* taken as one step: the value returned depends on the read alone, and a
\* write is made only by a caller whose loop the stored lock is not bound to.
GetAsyncLock(c) ==
    /\ pc[c] = "getAsync"
    /\ CanRun(c)
    /\ LET loop == loopOf[c]
           lock == asyncLock
       IN IF NeedFresh(lock, loop)
          THEN /\ myLock' = [myLock EXCEPT ![c] = nextLock]
               /\ nextLock' = nextLock + 1
               /\ lockLoop' = [lockLoop EXCEPT ![nextLock] = IF lazyBind THEN 0 ELSE loop]
               /\ asyncLock' = nextLock
               /\ sawForeign' = (sawForeign \/ (lock # 0 /\ lockLoop[lock] \notin {0, loop}))
          ELSE /\ myLock' = [myLock EXCEPT ![c] = lock]
               /\ UNCHANGED <<nextLock, lockLoop, asyncLock, sawForeign>>
    /\ pc' = [pc EXCEPT ![c] = "acqAsync"]
    /\ UNCHANGED <<tierVars, lockHeld, lockWaiters, envVars, running, frames,
                   exc, errExits, active, bodyVars>>

\* lock.py:55  async with <lock>: asyncio.Lock.acquire.  A free lock without
\* waiters is taken at once; otherwise the task queues on the lock (which
\* binds an unbound lock to the running loop) and yields to its event loop.
AcquireAsync(c) ==
    /\ pc[c] = "acqAsync"
    /\ CanRun(c)
    /\ LET k == myLock[c]
       IN IF lockHeld[k] = NoOne /\ lockWaiters[k] = <<>>
          THEN /\ lockHeld' = [lockHeld EXCEPT ![k] = c]
               /\ pc' = [pc EXCEPT ![c] = "acqProc"]
               /\ UNCHANGED <<lockWaiters, lockLoop, running>>
          ELSE /\ lockWaiters' = [lockWaiters EXCEPT ![k] = Append(@, c)]
               /\ lockLoop' = [lockLoop EXCEPT ![k] = IF @ = 0 THEN loopOf[c] ELSE @]
               /\ pc' = [pc EXCEPT ![c] = "waitAsync"]
               /\ running' = [running EXCEPT ![loopOf[c]] = NoOne]
               /\ UNCHANGED lockHeld
    /\ UNCHANGED <<tierVars, asyncLock, nextLock, envVars, frames, myLock, exc, errExits,
                   active, sawForeign, bodyVars>>

\* The event loop resumes a task whose wait on the asyncio lock has ended.
WakeRun(c) ==
    /\ pc[c] = "woken"
    /\ running[loopOf[c]] = NoOne
    /\ running' = [running EXCEPT ![loopOf[c]] = c]
    /\ pc' = [pc EXCEPT ![c] = "acqProc"]
    /\ UNCHANGED <<lockVars, frames, myLock, exc, errExits, active, sawForeign, bodyVars>>

\* multiprocessing.Lock is not recursive and has no owner: it can be taken
\* only while nobody holds it, the caller included.
\* Fault: the tier behaving as a recursive (owner-counting) lock.
ProcessLockFree_Recursive(c) == processLock \in {NoOne, c}
ProcessLockFree(c) == processLock = NoOne

\* lock.py:46 and lock.py:56  with cls.process_lock
AcquireProcess(c) ==
    /\ pc[c] = "acqProc"
    /\ CanRun(c)
    /\ ProcessLockFree(c)
    /\ processLock' = c
    /\ pc' = [pc EXCEPT ![c] = "acqThread"]
    /\ UNCHANGED <<rlockOwner, rlockCount, asyncVars, envVars, running, frames, myLock,
                   exc, errExits, active, sawForeign, bodyVars>>

\* lock.py:47-48 and lock.py:57-58  with cls.thread_lock: yield
\* threading.RLock: free, or owned by the calling thread.  The protected
\* section starts here.
AcquireThread(c) ==
    /\ pc[c] = "acqThread"
    /\ CanRun(c)
    /\ (rlockCount = 0 \/ rlockOwner = ThreadOf(c))
    /\ rlockOwner' = ThreadOf(c)
    /\ rlockCount' = rlockCount + 1
    /\ pc' = [pc EXCEPT ![c] = "in"]
    /\ active' = active + 1
    /\ UNCHANGED <<processLock, asyncVars, envVars, running, frames, myLock, exc,
                   errExits, sawForeign, bodyVars>>

\* A click or key injection issued by the body of the operation.  forward
\* issues its own touch only after its nested select_option has returned.
Touch(c) ==
    /\ pc[c] = "in"
    /\ CanRun(c)
    /\ ~exc[c]
    /\ touches[c] < BodyTarget(c)
    /\ (op[c] = "forward" /\ Len(frames[c]) = 1) => nested[c]
    /\ touches' = [touches EXCEPT ![c] = @ + 1]
    /\ UNCHANGED <<lockVars, running, pc, frames, myLock, exc, errExits, active,
                   sawForeign, op, nested, opsLeft>>

\* base.py:245 and base.py:269  forward and quote, themselves wrapped by
\* uilock, call the uilock-wrapped select_option on the same thread.
CallNested(c) ==
    /\ pc[c] = "in"
    /\ CanRun(c)
    /\ ~exc[c]
    /\ op[c] = "forward"
    /\ Len(frames[c]) = 1
    /\ ~nested[c]
    /\ nested' = [nested EXCEPT ![c] = TRUE]
    /\ frames' = [frames EXCEPT ![c] = Append(@, "sync")]
    /\ pc' = [pc EXCEPT ![c] = FirstPc("sync")]
    /\ UNCHANGED <<lockVars, running, myLock, exc, errExits, active, sawForeign, op,
                   touches, opsLeft>>

\* lock.py:79  return await func(...): the wrapped coroutine suspends inside
\* the protected section and its event loop is free to run another task.
Await(c) ==
    /\ pc[c] = "in"
    /\ c \in Tasks
    /\ CanRun(c)
    /\ ~exc[c]
    /\ Top(c) = "async"
    /\ pc' = [pc EXCEPT ![c] = "suspended"]
    /\ running' = [running EXCEPT ![loopOf[c]] = NoOne]
    /\ UNCHANGED <<lockVars, frames, myLock, exc, errExits, active, sawForeign, bodyVars>>

Resume(c) ==
    /\ pc[c] = "suspended"
    /\ running[loopOf[c]] = NoOne
    /\ pc' = [pc EXCEPT ![c] = "in"]
    /\ running' = [running EXCEPT ![loopOf[c]] = c]
    /\ UNCHANGED <<lockVars, frames, myLock, exc, errExits, active, sawForeign, bodyVars>>

\* Where the innermost call returns to: the body of the enclosing call, or
\* out of the operation.
RetPc(c) == IF Len(frames[c]) = 1 THEN "idle" ELSE "in"

\* The innermost call returns to its caller; an exception keeps propagating
\* into the enclosing body.  (pc is set by the action that uses this.)
PopFrame(c) ==
    LET last == (Len(frames[c]) = 1)
    IN /\ frames' = [frames EXCEPT ![c] = Front(@)]
       /\ errExits' = (errExits \/ (last /\ exc[c]))
       /\ exc' = [exc EXCEPT ![c] = IF last THEN FALSE ELSE @]
       /\ touches' = [touches EXCEPT ![c] = IF last THEN 0 ELSE @]
       /\ op' = [op EXCEPT ![c] = IF last THEN "none" ELSE @]
       /\ nested' = [nested EXCEPT ![c] = IF last THEN FALSE ELSE @]
       /\ myLock' = [myLock EXCEPT ![c] = IF Top(c) = "async" THEN 0 ELSE @]
       /\ running' = IF last /\ c \in Tasks
                     THEN [running EXCEPT ![loopOf[c]] = NoOne] ELSE running

\* The body of the innermost call is left, by a return (e = FALSE) or by an
\* exception (e = TRUE).  A call made under acquire or acquire_async runs
\* the exits of its `with` statements next; an unwrapped call is over.
LeaveBody(c, e) ==
    IF Top(c) = "none"
    THEN /\ pc' = [pc EXCEPT ![c] = RetPc(c)]
         /\ frames' = [frames EXCEPT ![c] = Front(@)]
         /\ errExits' = (errExits \/ (Len(frames[c]) = 1 /\ e))
         /\ exc' = [exc EXCEPT ![c] = IF Len(frames[c]) = 1 THEN FALSE ELSE e]
         /\ touches' = [touches EXCEPT ![c] = IF Len(frames[c]) = 1 THEN 0 ELSE @]
         /\ op' = [op EXCEPT ![c] = IF Len(frames[c]) = 1 THEN "none" ELSE @]
         /\ nested' = [nested EXCEPT ![c] = IF Len(frames[c]) = 1 THEN FALSE ELSE @]
         /\ running' = IF Len(frames[c]) = 1 /\ c \in Tasks
                       THEN [running EXCEPT ![loopOf[c]] = NoOne] ELSE running
         /\ UNCHANGED <<lockVars, myLock, active, sawForeign, opsLeft>>
    ELSE /\ pc' = [pc EXCEPT ![c] = "relThread"]
         /\ exc' = [exc EXCEPT ![c] = e]
         /\ active' = active - 1
         /\ UNCHANGED <<lockVars, running, frames, myLock, errExits, sawForeign, bodyVars>>

\* The body returns (a result, success or failure).
Return(c) ==
    /\ pc[c] = "in"
    /\ CanRun(c)
    /\ ~exc[c]
    /\ LeaveBody(c, FALSE)

\* The body raises (an accessibility call fails), or an exception raised by a
\* nested call propagates through it.
Raise(c) ==
    /\ pc[c] = "in"
    /\ CanRun(c)
    /\ LeaveBody(c, TRUE)

\* lock.py:47 and lock.py:57  exit of `with cls.thread_lock`
ReleaseThread(c) ==
    /\ pc[c] = "relThread"
    /\ CanRun(c)
    /\ rlockCount' = rlockCount - 1
    /\ rlockOwner' = IF rlockCount = 1 THEN NoThread ELSE rlockOwner
    /\ pc' = [pc EXCEPT ![c] = "relProc"]
    /\ UNCHANGED <<processLock, asyncVars, envVars, running, frames, myLock, exc,
                   errExits, active, sawForeign, bodyVars>>

\* The holder of process_lock after the exit of `with cls.process_lock`,
\* reached on return (e = FALSE) and on an exception (e = TRUE) alike.
\* Fault: the lock released by hand after the body, so not when it raises.
AfterProcessExit_KeptOnError(c, e) == IF e THEN c ELSE NoOne
AfterProcessExit(c, e) == NoOne

\* lock.py:46 and lock.py:56  exit of `with cls.process_lock`; acquire() is
\* over after it, acquire_async() goes on to leave `async with`.
ReleaseProcess(c) ==
    /\ pc[c] = "relProc"
    /\ CanRun(c)
    /\ processLock' = AfterProcessExit(c, exc[c])
    /\ IF Top(c) = "async"
       THEN /\ pc' = [pc EXCEPT ![c] = "relAsync"]
            /\ UNCHANGED <<running, frames, myLock, exc, errExits, bodyVars>>
       ELSE /\ pc' = [pc EXCEPT ![c] = RetPc(c)]
            /\ PopFrame(c)
            /\ UNCHANGED opsLeft
    /\ UNCHANGED <<rlockOwner, rlockCount, asyncVars, envVars, active, sawForeign>>

\* lock.py:55  exit of `async with`: asyncio.Lock.release wakes the first
\* waiter, which owns the lock from then on (later arrivals queue behind it).
ReleaseAsync(c) ==
    /\ pc[c] = "relAsync"
    /\ CanRun(c)
    /\ LET k == myLock[c]
       IN IF lockWaiters[k] = <<>>
          THEN /\ lockHeld' = [lockHeld EXCEPT ![k] = NoOne]
               /\ pc' = [pc EXCEPT ![c] = RetPc(c)]
               /\ UNCHANGED lockWaiters
          ELSE /\ lockHeld' = [lockHeld EXCEPT ![k] = Head(lockWaiters[k])]
               /\ lockWaiters' = [lockWaiters EXCEPT ![k] = Tail(@)]
               /\ pc' = [pc EXCEPT ![c] = RetPc(c), ![Head(lockWaiters[k])] = "woken"]
    /\ PopFrame(c)
    /\ UNCHANGED <<tierVars, asyncLock, lockLoop, nextLock, envVars, active, sawForeign,
                   opsLeft>>

LockStep(c) ==
    \/ StartOp(c)
    \/ AcquireProcess(c)
    \/ AcquireThread(c)
    \/ Touch(c)
    \/ CallNested(c)
    \/ Return(c)
    \/ Raise(c)
    \/ ReleaseThread(c)
    \/ ReleaseProcess(c)

AsyncStep(c) ==
    \/ GetAsyncLock(c)
    \/ AcquireAsync(c)
    \/ WakeRun(c)
    \/ Await(c)
    \/ Resume(c)
    \/ ReleaseAsync(c)

Init ==
    /\ LockInit
    /\ menu = SyncLockedOps \cup AsyncOps
    /\ LocIdle
    /\ BfsIdle
    /\ ItemFresh
    /\ CacheIdle
    /\ rawText = <<>>
    /\ CallIdle

Next ==
    \/ \E c \in Ctx : LockStep(c)
    \/ \E c \in Tasks : AsyncStep(c)

Spec == Init /\ [][Next]_vars

\* The callers of the touch specification: synchronous threads using the
\* wrapped message operations and the unwrapped Moment operations.
TouchInit ==
    /\ LockInit
    /\ menu = SyncLockedOps \cup UnlockedOps
    /\ LocIdle
    /\ BfsIdle
    /\ ItemFresh
    /\ CacheIdle
    /\ rawText = <<>>
    /\ CallIdle

TouchNext == \E c \in Threads : LockStep(c)

SpecTouch == TouchInit /\ [][TouchNext]_vars

(***************************************************************************)
(* Properties of the actor lock.                                           *)
(***************************************************************************)

\* The context is inside a protected section: its innermost wrapped call has
\* entered its body, or it is in a call nested in such a body.
Inside(c) ==
    \/ Len(frames[c]) >= 2
    \/ (Len(frames[c]) = 1 /\ Top(c) # "none" /\ pc[c] \in {"in", "suspended"})

\* C1 - mutual exclusion: at most one protected section is active at any
\* instant, whatever mix of threads (acquire) and tasks (acquire_async)
\* competes; a counter incremented on entry and decremented on exit of the
\* section never exceeds 1.
C1_MutualExclusion ==
    /\ active <= 1
    /\ \A c, d \in Ctx : (Inside(c) /\ Inside(d)) => c = d

\* A task is inside its section while a thread is blocked on the lock.
C1_Witness ==
    \E c \in Threads, a \in Tasks :
        /\ pc[a] \in {"in", "suspended"}
        /\ Top(a) = "async"
        /\ pc[c] = "acqProc"
        /\ active = 1

\* C2 - re-entrancy: a thread that already holds the actor lock acquires it
\* again without blocking, so no thread ever waits for a lock tier that it
\* holds itself.
C2_Reentrant ==
    \A c \in Ctx : ~(pc[c] = "acqProc" /\ processLock = c)

\* Frames of a context that hold thread_lock.
ThreadHolds(c) ==
    LET n == Len(frames[c])
    IN IF n = 0 THEN 0
       ELSE Cardinality({i \in 1..(n - 1) : frames[c][i] # "none"})
            + (IF Top(c) # "none" /\ pc[c] \in {"in", "suspended", "relThread"}
               THEN 1 ELSE 0)

RECURSIVE SumOver(_, _)
SumOver(f, S) ==
    IF S = {} THEN 0
    ELSE LET x == CHOOSE y \in S : TRUE IN f[x] + SumOver(f, S \ {x})

\* C3 - scoped release: once an operation is over, by return or by an
\* exception, the context holds no tier of the lock: not the process lock,
\* no asyncio lock, and no level of the thread lock (its recursion level is
\* exactly the number of sections still open).
C3_ScopedRelease ==
    /\ \A c \in Ctx :
         pc[c] = "idle" => (processLock # c /\ \A k \in LockIds : lockHeld[k] # c)
    /\ rlockCount = SumOver([c \in Ctx |-> ThreadHolds(c)], Ctx)
    /\ (\A c \in Ctx : pc[c] = "idle") =>
         (processLock = NoOne /\ rlockCount = 0 /\ \A k \in LockIds : lockHeld[k] = NoOne)

\* An operation has ended by an exception and another context is inside its
\* protected section afterwards.
C3_Witness ==
    /\ errExits
    /\ \E c \in Ctx : pc[c] = "in" /\ Top(c) # "none"

\* The operation of the context has issued a touch and its body is not over.
MidTouches(c) ==
    touches[c] > 0 /\ pc[c] \in {"in", "suspended", "acqProc", "acqThread"}

\* C4 - every UI touch is serialized by the actor lock: a context that has
\* issued a click or key injection in its current operation holds the lock,
\* and no two operations are in the middle of their touches at once.
C4_TouchesUnderLock ==
    /\ \A c \in Ctx : MidTouches(c) => processLock = c
    /\ \A c, d \in Ctx : (MidTouches(c) /\ MidTouches(d)) => c = d

\* C5 - scheduler-bound lock rebinding: the lock _get_async_lock hands to a
\* task is never bound to an event loop other than the task's own; when the
\* stored lock is bound to another loop the call stores and returns a lock
\* constructed by that very call.
C5_Rebinding ==
    /\ [](\A a \in Tasks : myLock[a] # 0 => lockLoop[myLock[a]] \in {0, loopOf[a]})
    /\ [][\A a \in Tasks :
            (pc[a] = "getAsync" /\ pc'[a] = "acqAsync"
               /\ asyncLock # 0 /\ lockLoop[asyncLock] \notin {0, loopOf[a]})
            => (/\ myLock'[a] = nextLock
                /\ asyncLock' = nextLock
                /\ nextLock' = nextLock + 1
                /\ \A b \in Tasks : myLock[b] # nextLock)]_vars

\* A stored lock bound to another loop was met and replaced.
C5_Witness ==
    /\ sawForeign
    /\ \E a \in Tasks :
         /\ pc[a] = "acqAsync"
         /\ myLock[a] = asyncLock
         /\ lockLoop[myLock[a]] = loopOf[a]
(***************************************************************************)
(* moment.py: MomentActionMenu._locate, the polling search for the popup   *)
(* menu of a feed post.  Time is counted in ticks of 10 ms.  A window is a *)
(* record: ok is FALSE when win.GetChildren() raises, kids are its         *)
(* children; a child is "match" (its Name is one of the captions like,     *)
(* cancel, comment), "other", or "unreadable" (reading its Name raises).    *)
(***************************************************************************)
KidKinds == {"match", "other", "unreadable"}

RECURSIVE SeqsUpTo(_, _)
SeqsUpTo(S, n) ==
    IF n = 0 THEN {<<>>}
    ELSE LET shorter == SeqsUpTo(S, n - 1)
         IN  shorter \cup {Append(q, x) : q \in {r \in shorter : Len(r) = n - 1}, x \in S}

Windows ==
    {[ok |-> TRUE, kids |-> k] : k \in SeqsUpTo(KidKinds, MaxKids)}
        \cup {[ok |-> FALSE, kids |-> <<>>]}

\* The lists find_all_windows_from_root may return.
WinLists == SeqsUpTo(Windows, MaxWins)

\* while time.time() - t0 <= timeout
StillPolling(elapsed, T) == elapsed <= T

\* try: children = win.GetChildren()  except Exception: children = []
ChildrenOrEmpty(win) == IF win.ok THEN win.kids ELSE <<>>

\* for child in children: name = getattr(child, 'Name', ''); if name in {...}
\* The default of getattr covers a missing attribute only: an error raised
\* by the read of Name leaves the loop and the function.
RECURSIVE ScanKids(_, _)
ScanKids(kids, i) ==
    IF i > Len(kids) THEN "none"
    ELSE IF kids[i] = "unreadable" THEN "raised"
    ELSE IF kids[i] = "match" THEN "found"
    ELSE ScanKids(kids, i + 1)

\* for win in wins: ...  The outcome of one pass and the window returned.
RECURSIVE ScanWins(_, _)
ScanWins(ws, i) ==
    IF i > Len(ws) THEN <<"none", 0>>
    ELSE LET r == ScanKids(ChildrenOrEmpty(ws[i]), 1)
         IN  IF r = "found" THEN <<"found", i>>
             ELSE IF r = "raised" THEN <<"raised", 0>>
             ELSE ScanWins(ws, i + 1)

HasMatch(ws) ==
    \E i \in 1..Len(ws) : \E j \in 1..Len(ws[i].kids) : ws[i].kids[j] = "match"

outsideBfs == <<tierVars, asyncVars, lazyBind, loopOf, menu, ctxVars, locVars, itemVars, callVars>>
outsideLoc == <<tierVars, asyncVars, lazyBind, loopOf, menu, ctxVars, bfsVars, itemVars, callVars>>
outsideItem == <<tierVars, asyncVars, lazyBind, loopOf, menu, ctxVars, locVars, bfsVars, callVars>>
outsideCall == <<tierVars, asyncVars, lazyBind, loopOf, menu, ctxVars, locVars, bfsVars, itemVars>>

\* MomentActionMenu(parent, timeout): t0 = time.time()
LocStart ==
    /\ locPc = "idle"
    /\ \E T \in 0..MaxTimeout : timeout' = T
    /\ t0' = now
    /\ locPc' = "check"
    /\ UNCHANGED <<now, wins, locResult, locWin, neverMatched>>
    /\ UNCHANGED outsideLoc

\* The loop condition; return None when it fails.
LocCheck ==
    /\ locPc = "check"
    /\ IF StillPolling(now - t0, timeout)
       THEN locPc' = "enum" /\ UNCHANGED locResult
       ELSE locPc' = "done" /\ locResult' = "notfound"
    /\ UNCHANGED <<now, t0, timeout, wins, locWin, neverMatched>>
    /\ UNCHANGED outsideLoc

\* wins = find_all_windows_from_root(...): the call takes some time and
\* returns a list; it is made outside every try statement, so its failure
\* leaves _locate.
LocEnumerate ==
    /\ locPc = "enum"
    /\ \E d \in 0..MaxCallTicks : now' = now + d
    /\ \/ \E ws \in WinLists :
            /\ wins' = ws
            /\ neverMatched' = (neverMatched /\ ~HasMatch(ws))
            /\ locPc' = "scan"
            /\ UNCHANGED locResult
       \/ /\ locPc' = "done"
          /\ locResult' = "raised"
          /\ UNCHANGED <<wins, neverMatched>>
    /\ UNCHANGED <<t0, timeout, locWin>>
    /\ UNCHANGED outsideLoc

\* The for loops over the windows and their children.
LocScan ==
    /\ locPc = "scan"
    /\ \E d \in 0..MaxCallTicks : now' = now + d
    /\ LET r == ScanWins(wins, 1)
       IN  /\ locWin' = r[2]
           /\ IF r[1] = "none"
              THEN locPc' = "sleep" /\ UNCHANGED locResult
              ELSE locPc' = "done" /\ locResult' = r[1]
    /\ UNCHANGED <<t0, timeout, wins, neverMatched>>
    /\ UNCHANGED outsideLoc

\* time.sleep(0.05): suspends for at least the interval.
LocSleep ==
    /\ locPc = "sleep"
    /\ \E j \in 0..MaxOversleep : now' = now + PollInterval + j
    /\ locPc' = "check"
    /\ UNCHANGED <<t0, timeout, wins, locResult, locWin, neverMatched>>
    /\ UNCHANGED outsideLoc

\* No caller uses the lock part.
LockIdle ==
    /\ LockInit
    /\ lazyBind = FALSE
    /\ \A a \in Tasks : loopOf[a] = 1
    /\ menu = {}

LocateInit == LockIdle /\ LocIdle /\ BfsIdle /\ ItemFresh /\ CacheIdle /\ rawText = <<>> /\ CallIdle

LocateNext == LocStart \/ LocCheck \/ LocEnumerate \/ LocScan \/ LocSleep

SpecLocate == LocateInit /\ [][LocateNext]_vars

\* C6: called with a timeout T and a predicate that never matches, _locate
\* returns None, and no later than T plus one poll interval after its start.
C6_BoundedPolling ==
    (locPc = "done" /\ neverMatched)
        => (locResult = "notfound" /\ now - t0 <= timeout + PollInterval)

\* C7: no failure of an accessibility call made in a poll iteration (window
\* enumeration, child enumeration, reading a child's name) propagates out of
\* _locate: it ends with a window or with None.
C7_FailuresSwallowed == locResult # "raised"

(***************************************************************************)
(* moment.py: MomentList._locate_list, the breadth-first search for the    *)
(* list control of the feed.  Control 0 is parent._api.control; the other  *)
(* controls are its descendants.  Membership of a control in `visited` is  *)
(* membership of the node it stands for.  Reading ControlTypeName,         *)
(* ClassName and AutomationId is taken to succeed; the two calls          *)
(* _locate_list guards, GetChildren and the read of a child's Name, may    *)
(* raise.                                                                  *)
(***************************************************************************)
RECURSIVE SortedSeq(_)
SortedSeq(S) ==
    IF S = {} THEN <<>>
    ELSE LET m == CHOOSE x \in S : \A y \in S : x <= y
         IN  <<m>> \o SortedSeq(S \ {m})

\* The trees: every control has a parent of a smaller number.
Forests == {p \in [Nodes -> 0..MaxNodes] : \A n \in Nodes : p[n] < n}

\* One more edge <<from, to>>, which makes a control a child a second time
\* (a node shared by two parents, a duplicate in a child list, a cycle);
\* <<0, 0>> adds none.
ExtraEdges == {<<0, 0>>} \cup ((0..MaxNodes) \X Nodes)

ChildLists(p, e) ==
    [m \in 0..MaxNodes |->
        LET base == SortedSeq({n \in Nodes : p[n] = m})
        IN  IF e[2] # 0 /\ e[1] = m THEN Append(base, e[2]) ELSE base]

\* The controls of the trees: list controls, and other controls, of which
\* some (the comment button) are named 评论.
ControlKinds ==
    {<<"moment", FALSE>>, <<"list", FALSE>>, <<"other", FALSE>>, <<"other", TRUE>>}

Faults ==
    {<<"none", 0>>} \cup {<<"children", n>> : n \in 0..MaxNodes}
        \cup {<<"name", n>> : n \in Nodes}

\* try: children = ctrl.GetChildren()  except Exception: children = []
GetChildren(n) == IF fault = <<"children", n>> THEN <<>> ELSE children[n]

\* try: getattr(child, 'Name', '') == _lang('评论')  except Exception: continue
NamedComment(c) == fault # <<"name", c>> /\ named[c]

\* ctrl in visited
Seen(ctrl, vis) == ctrl \in vis

\* visited.add(ctrl)
MarkVisited_Forgets(vis, ctrl) == vis

MarkVisited(vis, ctrl) == vis \cup {ctrl}

\* queue.pop(0) takes the control at the front.
PopIndex_Last(q) == Len(q)

PopIndex(q) == 1

Without(q, i) == SubSeq(q, 1, i - 1) \o SubSeq(q, i + 1, Len(q))

\* ControlTypeName == 'ListControl' and ('Moment' in class_name or
\* 'moment' in automation_id.lower())
IsMomentList(ctrl) == ctype[ctrl] = "moment"

\* ControlTypeName == 'ListControl' and some child is named 评论
HasCommentChild(ctrl, kids) ==
    /\ ctype[ctrl] \in {"list", "moment"}
    /\ \E k \in 1..Len(kids) : NamedComment(kids[k])

\* candidates = parent._api.control.GetChildren(); queue = list(candidates)
BfsStart ==
    /\ bfsPc = "idle"
    /\ queue' = GetChildren(0)
    /\ visited' = {}
    /\ bfsPc' = "loop"
    /\ UNCHANGED <<treeVars, bfsResult, tested, expanded, popped>>
    /\ UNCHANGED outsideBfs

\* One iteration of `while queue`.
BfsVisit ==
    /\ bfsPc = "loop"
    /\ queue # <<>>
    /\ LET i == PopIndex(queue)
           ctrl == queue[i]
           rest == Without(queue, i)
           kids == GetChildren(ctrl)
       IN  IF Seen(ctrl, visited)
           THEN /\ queue' = rest
                /\ UNCHANGED <<visited, bfsPc, bfsResult, tested, expanded>>
           ELSE /\ visited' = MarkVisited(visited, ctrl)
                /\ tested' = [tested EXCEPT ![ctrl] = @ + 1]
                /\ IF IsMomentList(ctrl) \/ HasCommentChild(ctrl, kids)
                   THEN /\ bfsPc' = "done"
                        /\ bfsResult' = ctrl
                        /\ queue' = rest
                        /\ UNCHANGED expanded
                   ELSE /\ queue' = rest \o kids
                        /\ expanded' = [expanded EXCEPT ![ctrl] = @ + 1]
                        /\ UNCHANGED <<bfsPc, bfsResult>>
    /\ popped' = popped + 1
    /\ UNCHANGED treeVars
    /\ UNCHANGED outsideBfs

\* The queue is exhausted: return None.
BfsExhausted ==
    /\ bfsPc = "loop"
    /\ queue = <<>>
    /\ bfsPc' = "done"
    /\ bfsResult' = 0
    /\ UNCHANGED <<treeVars, queue, visited, tested, expanded, popped>>
    /\ UNCHANGED outsideBfs

BfsInit ==
    /\ LockIdle
    /\ LocIdle
    /\ ItemFresh
    /\ CacheIdle
    /\ rawText = <<>>
    /\ CallIdle
    /\ \E p \in Forests, e \in ExtraEdges : children = ChildLists(p, e)
    /\ \E k \in [Nodes -> ControlKinds] :
          /\ ctype = [n \in Nodes |-> k[n][1]]
          /\ named = [n \in Nodes |-> k[n][2]]
    /\ fault \in Faults
    /\ queue = <<>>
    /\ visited = {}
    /\ bfsPc = "idle"
    /\ bfsResult = 0
    /\ tested = [n \in Nodes |-> 0]
    /\ expanded = [n \in Nodes |-> 0]
    /\ popped = 0

BfsNext == BfsStart \/ BfsVisit \/ BfsExhausted

SpecBfs == BfsInit /\ [][BfsNext]_vars

(***************************************************************************)
(* Properties of the breadth-first search.                                 *)
(***************************************************************************)
RECURSIVE TotalLen(_, _)
TotalLen(f, S) ==
    IF S = {} THEN 0
    ELSE LET n == CHOOSE x \in S : TRUE
         IN  Len(f[n]) + TotalLen(f, S \ {n})

\* C8: the search tests each control at most once and enqueues its children
\* at most once, also when a control is reachable along several paths or
\* through a cycle; it runs at most one iteration for each entry of a child
\* list, and it returns None only once the queue is exhausted.
C8_VisitOnce ==
    /\ \A n \in Nodes : tested[n] <= 1 /\ expanded[n] <= 1
    /\ popped <= TotalLen(children, 0..MaxNodes)
    /\ (bfsPc = "done" /\ bfsResult = 0) => queue = <<>>
    /\ (bfsPc = "done" /\ bfsResult # 0) => tested[bfsResult] = 1

\* A search over a tree with a shared control or a cycle has met a control
\* a second time, skipped it, and ended at the exhausted queue.
C8_Witness ==
    /\ bfsPc = "done"
    /\ bfsResult = 0
    /\ popped > Cardinality(visited)
    /\ Cardinality(visited) >= 2

\* The structural predicate of the search, on the tree as the binding
\* shows it.
Matches(n) == IsMomentList(n) \/ HasCommentChild(n, GetChildren(n))

RECURSIVE Dedup(_, _)
Dedup(q, seen) ==
    IF q = <<>> THEN <<>>
    ELSE IF Head(q) \in seen THEN Dedup(Tail(q), seen)
    ELSE <<Head(q)>> \o Dedup(Tail(q), seen \cup {Head(q)})

RECURSIVE KidsOf(_)
KidsOf(level) ==
    IF level = <<>> THEN <<>> ELSE GetChildren(Head(level)) \o KidsOf(Tail(level))

\* The controls below the root in breadth-first order: depth by depth,
\* a depth in the child order of the depth above it, each control at its
\* first place.
RECURSIVE LevelOrder(_, _)
LevelOrder(level, seen) ==
    LET lv == Dedup(level, seen)
    IN  IF lv = <<>> THEN <<>>
        ELSE lv \o LevelOrder(KidsOf(lv), seen \cup {lv[k] : k \in 1..Len(lv)})

BreadthFirst == LevelOrder(GetChildren(0), {})

\* C9: the search returns the first control in breadth-first order that
\* satisfies the predicate, and None iff no control of the tree does.
C9_ShallowestMatch ==
    bfsPc = "done" =>
        LET order == BreadthFirst
            hits == {k \in 1..Len(order) : Matches(order[k])}
        IN  IF hits = {} THEN bfsResult = 0
            ELSE bfsResult = order[CHOOSE k \in hits : \A j \in hits : k <= j]

\* The search has returned a control although a later control of the
\* breadth-first order satisfies the predicate too.
C9_Witness ==
    /\ bfsPc = "done"
    /\ bfsResult # 0
    /\ popped >= 2
    /\ \E k \in 1..Len(BreadthFirst) :
          BreadthFirst[k] # bfsResult /\ Matches(BreadthFirst[k])

(***************************************************************************)
(* moment.py: MomentItem._ensure_parsed, the parser of the text of a feed  *)
(* post.  A text is a sequence of characters.  The characters of the       *)
(* keywords are written in ASCII:                                          *)
(*    "Z" 赞    "C" 评论    "G" 广告    "I" 包含    "P" 张图片               *)
(*    ";" ，    "|" ：     "h" 回     "f" 复     "[" "]" brackets  "u" 条   *)
(*    "Y" 年    "M" 月     "D" 日     "y" 昨     "t" 天                      *)
(*    "x" 星    "q" 期     "n" one of 一二三四五六                           *)
(***************************************************************************)
Digits == {"0", "1", "2", "3", "4", "5", "6", "7", "8", "9"}
DigitSeq == <<"0", "1", "2", "3", "4", "5", "6", "7", "8", "9">>
Whitespace == {" ", "\n"}

\* languages.MOMENTS for the active language, as _lang looks it up.
LikeKeyword == <<"Z">>
CommentKeyword == <<"C">>
AdKeyword == <<"G">>

\* A pattern is a sequence of items: lo to hi characters of the class cls.
Item(cls, lo, hi) == [cls |-> cls, lo |-> lo, hi |-> hi]

\* _lang('re_图片数'): 包含(\d+)张图片
ImagePattern(line) == <<Item({"I"}, 1, 1), Item(Digits, 1, Len(line)), Item({"P"}, 1, 1)>>

\* patterns of _is_time_line
TimePatterns ==
    { <<Item(Digits, 4, 4), Item({"Y"}, 1, 1), Item(Digits, 1, 2), Item({"M"}, 1, 1),
        Item(Digits, 1, 2), Item({"D"}, 1, 1)>>,
      <<Item(Digits, 2, 2), Item({"-"}, 1, 1), Item(Digits, 2, 2)>>,
      <<Item(Digits, 1, 2), Item({":"}, 1, 1), Item(Digits, 2, 2)>>,
      <<Item({"y"}, 1, 1), Item({"t", "D"}, 1, 1)>>,
      <<Item({"x"}, 1, 1), Item({"q"}, 1, 1), Item({"n", "D", "t"}, 1, 1)>> }

\* The pattern matches line from position pos on, from its item k on.
RECURSIVE MatchFrom(_, _, _, _)
MatchFrom(line, pos, pat, k) ==
    IF k > Len(pat) THEN TRUE
    ELSE \E n \in pat[k].lo..pat[k].hi :
            /\ pos + n - 1 <= Len(line)
            /\ \A j \in pos..(pos + n - 1) : line[j] \in pat[k].cls
            /\ MatchFrom(line, pos + n, pat, k + 1)

\* re.search(pattern, line)
Search(pat, line) == \E pos \in 1..Len(line) : MatchFrom(line, pos, pat, 1)

\* _is_time_line(text)
IsTimeLine(text) == text # <<>> /\ \E pat \in TimePatterns : Search(pat, text)

\* line.startswith(prefix)
StartsWith(line, prefix) ==
    Len(line) >= Len(prefix) /\ SubSeq(line, 1, Len(prefix)) = prefix

\* word in line
Contains(line, word) ==
    \E pos \in 1..(Len(line) - Len(word) + 1) :
        SubSeq(line, pos, pos + Len(word) - 1) = word

\* line.strip()
RECURSIVE LStrip(_)
LStrip(line) ==
    IF line # <<>> /\ Head(line) \in Whitespace THEN LStrip(Tail(line)) ELSE line

RECURSIVE RStrip(_)
RStrip(line) ==
    IF line # <<>> /\ line[Len(line)] \in Whitespace
    THEN RStrip(SubSeq(line, 1, Len(line) - 1)) ELSE line

Strip(line) == RStrip(LStrip(line))

NonBlank(line) == Strip(line) # <<>>

\* raw_text.splitlines()
RECURSIVE SplitLines(_, _)
SplitLines(text, cur) ==
    IF text = <<>> THEN IF cur = <<>> THEN <<>> ELSE <<cur>>
    ELSE IF Head(text) = "\n" THEN <<cur>> \o SplitLines(Tail(text), <<>>)
    ELSE SplitLines(Tail(text), Append(cur, Head(text)))

RECURSIVE StripAll(_)
StripAll(ls) == IF ls = <<>> THEN <<>> ELSE <<Strip(Head(ls))>> \o StripAll(Tail(ls))

\* [line.strip() for line in raw_text.splitlines() if line.strip()]
TrimmedLines(text) == StripAll(SelectSeq(SplitLines(text, <<>>), NonBlank))

\* '\n'.join(lines)
RECURSIVE Join(_)
Join(ls) ==
    IF ls = <<>> THEN <<>>
    ELSE IF Len(ls) = 1 THEN ls[1]
    ELSE ls[1] \o <<"\n">> \o Join(Tail(ls))

\* re.findall(r'\d+', line): the numbers of the line, as digit strings
RECURSIVE FindNumbers(_, _)
FindNumbers(line, cur) ==
    IF line = <<>> THEN IF cur = <<>> THEN <<>> ELSE <<cur>>
    ELSE IF Head(line) \in Digits THEN FindNumbers(Tail(line), Append(cur, Head(line)))
    ELSE (IF cur = <<>> THEN <<>> ELSE <<cur>>) \o FindNumbers(Tail(line), <<>>)

\* int(digits)
RECURSIVE ToInt(_)
ToInt(ds) ==
    IF ds = <<>> THEN 0
    ELSE 10 * ToInt(SubSeq(ds, 1, Len(ds) - 1))
            + (CHOOSE v \in 0..9 : DigitSeq[v + 1] = ds[Len(ds)])

\* body_lines.index(line)
IndexOf(ls, line) == CHOOSE k \in 1..Len(ls) : ls[k] = line /\ \A j \in 1..(k - 1) : ls[j] # line

\* body_lines[body_lines.index(line) + 1:]
AfterKeyword_FromKeyword(body, line) == SubSeq(body, IndexOf(body, line), Len(body))

AfterKeyword(body, line) == SubSeq(body, IndexOf(body, line) + 1, Len(body))

\* The locals of _ensure_parsed and the fields it assigns inside the loop.
\* likes is <<>> for None; handled records the branch that took each line.
PassStart ==
    [time |-> itemTime, image |-> imageCount, ad |-> isAd, likes |-> <<>>,
     body |-> <<>>, comments |-> <<>>, handled |-> <<>>]

\* for line in body_lines: ...
RECURSIVE ParseLoop(_, _, _)
ParseLoop(body, i, st) ==
    IF i > Len(body) THEN st
    ELSE LET line == body[i]
         IN  IF Search(ImagePattern(line), line)
             THEN ParseLoop(body, i + 1,
                    [st EXCEPT !.image = IF FindNumbers(line, <<>>) # <<>>
                                         THEN ToInt(FindNumbers(line, <<>>)[1]) ELSE @,
                               !.handled = Append(@, "image")])
             ELSE IF StartsWith(line, LikeKeyword)
             THEN ParseLoop(body, i + 1,
                    [st EXCEPT !.likes = line, !.handled = Append(@, "likes")])
             ELSE IF line = CommentKeyword
             THEN [st EXCEPT !.comments = @ \o AfterKeyword(body, line),
                             !.handled = Append(@, "comment")]
             ELSE IF Contains(line, AdKeyword)
             THEN ParseLoop(body, i + 1,
                    [st EXCEPT !.ad = TRUE, !.handled = Append(@, "ad")])
             ELSE IF st.time = <<>> /\ IsTimeLine(line)
             THEN ParseLoop(body, i + 1,
                    [st EXCEPT !.time = line, !.handled = Append(@, "time")])
             ELSE ParseLoop(body, i + 1,
                    [st EXCEPT !.body = Append(@, line), !.handled = Append(@, "body")])

\* if not comment_lines: collect the lines after the first comment keyword
CollectComments(body, st) ==
    IF st.comments = <<>> /\ \E k \in 1..Len(body) : body[k] = CommentKeyword
    THEN [st EXCEPT !.comments = SubSeq(body, IndexOf(body, CommentKeyword) + 1, Len(body))]
    ELSE st

\* The text part of _ensure_parsed, up to the assignment of self.comments.
Parsed(lines) ==
    LET body == IF lines = <<>> THEN <<>> ELSE Tail(lines)
    IN  CollectComments(body, ParseLoop(body, 1, PassStart))

ParseText ==
    \E lines \in {TrimmedLines(rawText)} : \E st \in {Parsed(lines)} :
        /\ nickname' = IF lines # <<>> THEN lines[1] ELSE nickname
        /\ itemTime' = st.time
        /\ imageCount' = st.image
        /\ isAd' = st.ad
        /\ likesLine' = IF st.likes # <<>> THEN st.likes ELSE likesLine
        /\ content' = Strip(Join(st.body))
        /\ commentLines' = SelectSeq(st.comments, NonBlank)
        /\ handled' = st.handled

\* A read of a parsed property: _ensure_parsed returns at once when the post
\* is parsed, and parses it otherwise.
EnsureParsed ==
    /\ IF parsed
       THEN UNCHANGED <<parsed, fieldVars, handled, parsedFrom>>
       ELSE ParseText /\ parsed' = TRUE /\ parsedFrom' = rawText
    /\ UNCHANGED <<rawText, failures, listItems, earlier>>
    /\ UNCHANGED outsideItem

\* A read of a parsed property during which the binding raises: in
\* self.control.Name, before any field is assigned, or in
\* self.control.GetChildren(), after the text is parsed and before _parsed
\* is set.
EnsureParsedRaises ==
    /\ ~parsed
    /\ failures < MaxFailures
    /\ failures' = failures + 1
    /\ \/ UNCHANGED <<fieldVars, handled>>
       \/ ParseText
    /\ UNCHANGED <<rawText, parsed, cacheVars>>
    /\ UNCHANGED outsideItem

\* The lines the posts are made of.
LinePool ==
    { <<" ">>,
      <<" ", "a", " ">>,
      <<"1", "2", ":", "3", "0">>,
      <<"y", "t">>,
      <<"0", "5", "-", "1", "2">>,
      <<"1", ":", "3">>,
      <<"Z", "a", ",", "b">>,
      <<"Z", "1", "2", ":", "3", "0">>,
      <<"I", "3", "P">>,
      <<"Z", "I", "2", "P">>,
      <<"1", ":", "0", "0", "I", "3", "P">>,
      <<"C">>,
      <<"C", "a">>,
      <<"a", "G">>,
      <<"G", "1", "2", ":", "3", "0">> }

\* The first lines of the posts.
FirstLines == { <<"a", "b">>, <<"1", "2", ":", "3", "0">>, <<" ">> }

Posts ==
    {<<>>} \cup {Join(<<f>> \o ls) : f \in FirstLines, ls \in SeqsUpTo(LinePool, MaxLines)}

ParseInit ==
    /\ LockIdle
    /\ LocIdle
    /\ BfsIdle
    /\ ItemFresh
    /\ CacheIdle
    /\ rawText \in Posts
    /\ CallIdle

ParseNext == EnsureParsed \/ EnsureParsedRaises

SpecParse == ParseInit /\ [][ParseNext]_vars

(***************************************************************************)
(* Properties of the parser.                                               *)
(***************************************************************************)
IsImage(l) == Search(ImagePattern(l), l)
IsLikes(l) == StartsWith(l, LikeKeyword)
IsAd(l) == Contains(l, AdKeyword)

\* The place of the comment keyword: the first line that is the keyword
\* and matches no rule above it; one past the end when there is none.
KeywordAt(body) ==
    LET ks == {k \in 1..Len(body) :
                  ~IsImage(body[k]) /\ ~IsLikes(body[k]) /\ body[k] = CommentKeyword}
    IN  IF ks = {} THEN Len(body) + 1 ELSE CHOOSE k \in ks : \A j \in ks : k <= j

\* The first line before the keyword that looks like a timestamp and matches
\* no rule above; 0 when there is none.
TimestampAt(body) ==
    LET ks == {k \in 1..(KeywordAt(body) - 1) :
                  /\ ~IsImage(body[k]) /\ ~IsLikes(body[k]) /\ ~IsAd(body[k])
                  /\ IsTimeLine(body[k])}
    IN  IF ks = {} THEN 0 ELSE CHOOSE k \in ks : \A j \in ks : k <= j

\* The class of line k by the first matching rule.
ClassOf(body, k) ==
    IF IsImage(body[k]) THEN "image"
    ELSE IF IsLikes(body[k]) THEN "likes"
    ELSE IF k = KeywordAt(body) THEN "comment"
    ELSE IF IsAd(body[k]) THEN "ad"
    ELSE IF k = TimestampAt(body) THEN "time"
    ELSE "body"

RECURSIVE LinesOfClass(_, _, _)
LinesOfClass(body, k, class) ==
    IF k > Len(body) \/ k >= KeywordAt(body) THEN <<>>
    ELSE (IF ClassOf(body, k) = class THEN <<body[k]>> ELSE <<>>)
            \o LinesOfClass(body, k + 1, class)

\* C10: line 0 of the trimmed non-empty lines is the publisher; every later
\* line up to the comment keyword is taken by exactly one rule, the first
\* that matches in the order image count, likes prefix, comment keyword,
\* advertisement marker, first timestamp-like line, body; the timestamp is
\* that first timestamp-like line and the body text is the body lines joined
\* by line breaks in their order.
C10_Precedence ==
    parsed =>
        LET lines == TrimmedLines(rawText)
            body == IF lines = <<>> THEN <<>> ELSE Tail(lines)
            last == IF KeywordAt(body) > Len(body) THEN Len(body) ELSE KeywordAt(body)
        IN  /\ lines # <<>> => nickname = lines[1]
            /\ handled = [k \in 1..last |-> ClassOf(body, k)]
            /\ content = Join(LinesOfClass(body, 1, "body"))
            /\ itemTime = IF TimestampAt(body) = 0 THEN <<>> ELSE body[TimestampAt(body)]
            /\ isAd = (LinesOfClass(body, 1, "ad") # <<>>)
            /\ (LinesOfClass(body, 1, "likes") = <<>>) = (likesLine = <<>>)
            /\ LinesOfClass(body, 1, "image") = <<>> => imageCount = 0

\* The lines before the comment keyword that look like a timestamp and
\* match no rule above the timestamp rule.
TimeLike(body) ==
    {k \in 1..(KeywordAt(body) - 1) :
        /\ ~IsImage(body[k]) /\ ~IsLikes(body[k]) /\ ~IsAd(body[k])
        /\ IsTimeLine(body[k])}

\* C11: of the lines that match the timestamp heuristic and no rule above
\* it, the first in line order becomes the timestamp and is kept out of the
\* body; every later one is appended to the body text.
C11_FirstTimestampWins ==
    parsed =>
        LET lines == TrimmedLines(rawText)
            body == IF lines = <<>> THEN <<>> ELSE Tail(lines)
            ts == TimeLike(body)
        IN  ts # {} =>
                LET first == CHOOSE k \in ts : \A j \in ts : k <= j
                IN  /\ itemTime = body[first]
                    /\ handled[first] = "time"
                    /\ \A k \in ts \ {first} : handled[k] = "body"
                    /\ content = Join(SelectSeq(
                          [k \in 1..Len(handled) |->
                              IF handled[k] = "body" /\ k # first THEN body[k] ELSE <<>>],
                          NonBlank))

RECURSIVE SeqToSet(_)
SeqToSet(q) == IF q = <<>> THEN {} ELSE {Head(q)} \cup SeqToSet(Tail(q))

\* C12: once a line equal to the comment keyword is reached, the lines after
\* it, and only they, are the comment input, in their order; the
\* classification stops at the keyword, so none of them sets the image
\* count, the likes, the advertisement flag or the timestamp or enters the
\* body.
C12_CommentSection ==
    parsed =>
        LET lines == TrimmedLines(rawText)
            body == IF lines = <<>> THEN <<>> ELSE Tail(lines)
            at == KeywordAt(body)
            before == SeqToSet(SubSeq(body, 1, at - 1))
        IN  /\ commentLines = SubSeq(body, at + 1, Len(body))
            /\ Len(handled) = (IF at > Len(body) THEN Len(body) ELSE at)
            /\ at <= Len(body) => handled[at] = "comment"
            /\ \A k \in 1..Len(handled) : k < at => handled[k] # "comment"
            /\ isAd => \E l \in before : IsAd(l)
            /\ imageCount # 0 => \E l \in before : IsImage(l)
            /\ likesLine # <<>> => likesLine \in before
            /\ itemTime # <<>> => itemTime \in before
            /\ SeqToSet(SplitLines(content, <<>>)) \subseteq before

\* A parsed post with lines after the comment keyword that the rules above
\* the body rule would have taken.
C12_Witness ==
    /\ parsed
    /\ Len(commentLines) >= 2
    /\ \E k \in 1..Len(commentLines) : IsAd(commentLines[k]) \/ IsImage(commentLines[k])
    /\ \E k \in 1..Len(commentLines) : IsTimeLine(commentLines[k])
    /\ ~isAd
    /\ imageCount = 0
    /\ itemTime = <<>>

\* The number the image-count pattern captures in a line it matches: the
\* digits between the two words of its leftmost match.
ImageValue(line) ==
    LET ps == {p \in 1..Len(line) : MatchFrom(line, p, ImagePattern(line), 1)}
        at == CHOOSE p \in ps : \A q \in ps : p <= q
        n == CHOOSE m \in 1..Len(line) :
                /\ \A j \in (at + 1)..(at + m) : line[j] \in Digits
                /\ line[at + m + 1] = "P"
    IN  ToInt(SubSeq(line, at + 1, at + n))

\* C13: a line after line 0 and before the comment keyword that matches the
\* image-count pattern with the value n sets image_count to n and stays out
\* of the body text.
C13_ImageCount ==
    parsed =>
        LET lines == TrimmedLines(rawText)
            body == IF lines = <<>> THEN <<>> ELSE Tail(lines)
            imgs == {k \in 1..(KeywordAt(body) - 1) : IsImage(body[k])}
        IN  imgs # {} =>
                /\ imageCount = ImageValue(body[CHOOSE k \in imgs : \A j \in imgs : j <= k])
                /\ \A k \in imgs : handled[k] = "image"

(***************************************************************************)
(* moment.py: MomentComment.from_text.  Its regular expression is, from    *)
(* the start of the text: the group author, one or more characters other   *)
(* than a colon, lazy; white space; optionally 回复, white space, the group *)
(* reply, one or more characters other than a colon, lazy, white space;    *)
(* a colon of either width; the group content, the rest of the text.  It   *)
(* is matched as re.match does it: the alternatives are tried in the order *)
(* of the expression (a lazy item from its shortest, a greedy item from    *)
(* its longest, the optional group before its absence) and the first that  *)
(* succeeds gives the groups.                                              *)
(***************************************************************************)
Colons == {":", "|"}
ReplyWord == <<"h", "f">>
NoMatch == [ok |-> FALSE]
None == <<"None">>

\* The length of the run of white space that starts at position p.
RECURSIVE SpaceRun(_, _)
SpaceRun(text, p) ==
    IF p <= Len(text) /\ text[p] \in Whitespace THEN 1 + SpaceRun(text, p + 1) ELSE 0

\* a colon at position q, the content after it
ColonAt_AsciiOnly(text, q) == q <= Len(text) /\ text[q] = ":"

ColonAt(text, q) == q <= Len(text) /\ text[q] \in Colons

\* the white space after the group reply, from s3 characters down to none,
\* then the colon
RECURSIVE ReplySpaces(_, _, _, _)
ReplySpaces(text, q2, r, s3) ==
    IF s3 < 0 THEN NoMatch
    ELSE IF ColonAt(text, q2 + r + s3)
    THEN [ok |-> TRUE, reply |-> SubSeq(text, q2, q2 + r - 1),
          content |-> SubSeq(text, q2 + r + s3 + 1, Len(text))]
    ELSE ReplySpaces(text, q2, r, s3 - 1)

\* the group reply, from r characters up
RECURSIVE ReplyGroup(_, _, _)
ReplyGroup(text, q2, r) ==
    IF q2 + r - 1 > Len(text) \/ text[q2 + r - 1] \in Colons THEN NoMatch
    ELSE LET m == ReplySpaces(text, q2, r, SpaceRun(text, q2 + r))
         IN  IF m.ok THEN m ELSE ReplyGroup(text, q2, r + 1)

\* the white space after 回复, from s2 characters down to none
RECURSIVE ReplyWordSpaces(_, _, _)
ReplyWordSpaces(text, q, s2) ==
    IF s2 < 0 THEN NoMatch
    ELSE LET m == ReplyGroup(text, q + s2, 1)
         IN  IF m.ok THEN m ELSE ReplyWordSpaces(text, q, s2 - 1)

\* the white space after the author, from s characters down to none; then
\* the optional part that starts with 回复 and, when it fails, the colon
RECURSIVE AfterAuthor(_, _, _)
AfterAuthor(text, p, s) ==
    IF s < 0 THEN NoMatch
    ELSE LET q == p + s
             g == IF q + 1 <= Len(text) /\ SubSeq(text, q, q + 1) = ReplyWord
                  THEN ReplyWordSpaces(text, q + 2, SpaceRun(text, q + 2))
                  ELSE NoMatch
         IN  IF g.ok THEN g
             ELSE IF ColonAt(text, q)
             THEN [ok |-> TRUE, reply |-> None, content |-> SubSeq(text, q + 1, Len(text))]
             ELSE AfterAuthor(text, p, s - 1)

\* the group author, from a characters up
RECURSIVE AuthorGroup(_, _)
AuthorGroup(text, a) ==
    IF a > Len(text) \/ text[a] \in Colons THEN NoMatch
    ELSE LET m == AfterAuthor(text, a + 1, SpaceRun(text, a + 1))
         IN  IF m.ok
             THEN [ok |-> TRUE, author |-> SubSeq(text, 1, a), reply |-> m.reply,
                   content |-> m.content]
             ELSE AuthorGroup(text, a + 1)

\* MomentComment.from_text(text)
FromText(input) ==
    LET text == Strip(input)
        m == AuthorGroup(text, 1)
    IN  IF m.ok
        THEN [author |-> Strip(m.author),
              reply_to |-> IF m.reply = None \/ m.reply = <<>> THEN m.reply ELSE Strip(m.reply),
              content |-> Strip(m.content),
              raw |-> text]
        ELSE [author |-> <<>>, reply_to |-> None, content |-> Strip(text), raw |-> text]

\* The comment lines: names, optional spaces, one of the two colons, texts.
Names == { <<"a">>, <<"a", " ", "b">>, <<"h", "f", "a">> }
Bodies == { <<>>, <<"x">>, <<"x", ":", "y">>, <<"h", "f", " ", "x">> }
Gaps == { <<>>, <<" ">> }
Plain == { <<>>, <<"x">>, <<" ", "x", " ", "y", " ">>, <<"a", " ", "h", "f", " ", "b">> }

CommentCalls ==
    {[fn |-> "from_text", form |-> "reply", A |-> A, B |-> B, C |-> C,
      text |-> g[1] \o A \o g[2] \o ReplyWord \o g[3] \o B \o g[4] \o <<c>> \o g[5] \o C \o g[1]] :
        A \in Names, B \in Names, C \in Bodies, c \in Colons, g \in [1..5 -> Gaps]}
    \cup
    {[fn |-> "from_text", form |-> "colon", A |-> A, B |-> None, C |-> C,
      text |-> g[1] \o A \o g[2] \o <<c>> \o g[3] \o C \o g[1]] :
        A \in Names, C \in Bodies, c \in Colons, g \in [1..3 -> Gaps]}
    \cup
    {[fn |-> "from_text", form |-> "plain", A |-> <<>>, B |-> None, C |-> Strip(t), text |-> t] :
        t \in Plain}

CallFromText ==
    /\ ~callDone
    /\ callArg.fn = "from_text"
    /\ callRet' = FromText(callArg.text)
    /\ callDone' = TRUE
    /\ UNCHANGED callArg
    /\ UNCHANGED outsideCall

\* C14: from_text maps 'A 回复 B：C' to author A, reply_to B and content C,
\* maps 'A：C', with a colon of either width, to author A, no reply_to and
\* content C, and maps a line without a colon to an empty author and the
\* whole trimmed text as content; raw is the trimmed line in every case.
C14_CommentParsing ==
    (callDone /\ callArg.fn = "from_text") =>
        /\ callRet.raw = Strip(callArg.text)
        /\ callRet.author = callArg.A
        /\ callRet.reply_to = callArg.B
        /\ callRet.content = callArg.C

\* A reply with a full-width colon, a name of two words and a content that
\* holds a colon of its own has been parsed.
C14_Witness ==
    /\ callDone
    /\ callArg.fn = "from_text"
    /\ callArg.form = "reply"
    /\ callArg.A = <<"a", " ", "b">>
    /\ Contains(callArg.text, <<"|">>)
    /\ callArg.C = <<"x", ":", "y">>
    /\ callRet.reply_to = <<"h", "f", "a">>

\* ------------------------------------------------------------------------
\* _split_like_names
\* ------------------------------------------------------------------------

\* "," is the comma, ";" the full-width comma; the key 分隔符_点赞 is written
\* with one token per character.
SeparatorKey == <<"v", "w", "k", "_", "d", "Z">>
Missing == <<"Missing">>

\* An entry of languages.MOMENTS: present is FALSE when the table has no
\* entry (or an empty one) under the key; cur and cn are the texts for the
\* active language and for 'cn', Missing when the entry has none.
Entry(present, cur, cn) == [present |-> present, cur |-> cur, cn |-> cn]

\* _lang(key)
Lang(entry, key) ==
    IF ~entry.present THEN key
    ELSE IF entry.cur # Missing THEN entry.cur
    ELSE IF entry.cn # Missing THEN entry.cn
    ELSE key

\* text.lstrip('：: ')
RECURSIVE LStripPunct(_)
LStripPunct(text) ==
    IF text # <<>> /\ Head(text) \in {"|", ":", " "} THEN LStripPunct(Tail(text)) ELSE text

\* text.split(sep)
RECURSIVE SplitOn(_, _, _)
SplitOn(text, sep, cur) ==
    IF text = <<>> THEN <<cur>>
    ELSE IF StartsWith(text, sep)
    THEN <<cur>> \o SplitOn(SubSeq(text, Len(sep) + 1, Len(text)), sep, <<>>)
    ELSE SplitOn(Tail(text), sep, Append(cur, Head(text)))

\* re.split on the class of the comma, the colon and the full-width comma
RECURSIVE SplitAny(_, _)
SplitAny(text, cur) ==
    IF text = <<>> THEN <<cur>>
    ELSE IF Head(text) \in {",", ":", ";"} THEN <<cur>> \o SplitAny(Tail(text), <<>>)
    ELSE SplitAny(Tail(text), Append(cur, Head(text)))

\* _split_like_names(text), with the table's entry for the separator
SplitLikeNames(input, entry) ==
    IF input = <<>> THEN <<>>
    ELSE LET text == Strip(input)
             rest == IF StartsWith(text, LikeKeyword)
                     THEN LStripPunct(SubSeq(text, Len(LikeKeyword) + 1, Len(text)))
                     ELSE text
             sep == Lang(entry, SeparatorKey)
         IN  IF sep # <<>>
             THEN StripAll(SelectSeq(SplitOn(rest, sep, <<>>), NonBlank))
             ELSE StripAll(SelectSeq(SplitAny(rest, <<>>), NonBlank))

\* The tables: a separator for the active language, one for 'cn' only, and
\* the ways of having none configured (no entry, an entry without the two
\* languages, an empty text).
Configured ==
    { Entry(TRUE, sep, Missing) : sep \in {<<",">>, <<";">>} }
        \cup { Entry(TRUE, Missing, <<";">>) }
Unconfigured ==
    { Entry(FALSE, Missing, Missing), Entry(TRUE, Missing, Missing), Entry(TRUE, <<>>, Missing) }

SepOf(entry) == IF entry.cur # Missing THEN entry.cur ELSE entry.cn

LikeNames == { <<"a">>, <<"b", "c">>, <<"a", " ", "b">> }
NameLists == { ns \in SeqsUpTo(LikeNames, 3) : \A i, j \in 1..Len(ns) : i # j => ns[i] # ns[j] }
Prefixes == { <<>>, <<":">>, <<":", " ">>, <<"|">>, <<" ">> }

\* names written one after the other with the joiner between them
RECURSIVE JoinWith(_, _)
JoinWith(ns, joiner) ==
    IF ns = <<>> THEN <<>>
    ELSE IF Len(ns) = 1 THEN ns[1]
    ELSE ns[1] \o joiner \o JoinWith(Tail(ns), joiner)

LikeCalls ==
    {[fn |-> "split_like_names", entry |-> e, names |-> ns,
      text |-> LikeKeyword \o pre \o JoinWith(ns, SepOf(e) \o g) \o g] :
        e \in Configured, ns \in NameLists, pre \in Prefixes, g \in Gaps}
    \cup
    {[fn |-> "split_like_names", entry |-> e, names |-> ns,
      text |-> LikeKeyword \o pre \o JoinWith(ns, <<j>> \o g) \o g] :
        e \in Unconfigured, ns \in NameLists, pre \in Prefixes, g \in Gaps,
        j \in {",", ":", ";"}}

CallSplitLikeNames ==
    /\ ~callDone
    /\ callArg.fn = "split_like_names"
    /\ callRet' = SplitLikeNames(callArg.text, callArg.entry)
    /\ callDone' = TRUE
    /\ UNCHANGED callArg
    /\ UNCHANGED outsideCall

\* The text functions of moment.py, each called once on one input.
TextInit ==
    /\ LockIdle /\ LocIdle /\ BfsIdle /\ ItemFresh /\ CacheIdle
    /\ rawText = <<>>
    /\ callArg \in CommentCalls \cup LikeCalls
    /\ callRet = <<>>
    /\ callDone = FALSE

TextNext == CallFromText \/ CallSplitLikeNames

SpecText == TextInit /\ [][TextNext]_vars

\* C15: a likes line is parsed by dropping the like keyword and the colons
\* and spaces after it and splitting on the configured separator, or on
\* commas and colons when no separator is configured; the names come back
\* in order, a line with nothing after the keyword gives no names, and no
\* name is empty or has white space around it.
C15_LikesParsing ==
    (callDone /\ callArg.fn = "split_like_names") =>
        /\ callRet = callArg.names
        /\ \A i \in 1..Len(callRet) : callRet[i] # <<>> /\ Strip(callRet[i]) = callRet[i]

\* ------------------------------------------------------------------------
\* MomentList.refresh, MomentList.get_items and the parse cache of the post
\* ------------------------------------------------------------------------

\* The texts the node of the post shows, one after the other.
CachePosts ==
    { <<"a", "b", "\n", "y", "t">>,
      <<"a", "b", "\n", "y", "t", "\n", "1", "2", ":", "3", "0">>,
      <<"a", "b", "\n", " ", "a", " ", "\n", "Z", "a", ",", "b">> }

\* The application changes the text of the node.
TextChanges ==
    /\ \E text \in CachePosts \ {rawText} : rawText' = text
    /\ UNCHANGED <<parsed, fieldVars, handled, failures, cacheVars>>
    /\ UNCHANGED outsideItem

\* MomentList.refresh()
ListRefresh ==
    /\ listItems' = "None"
    /\ UNCHANGED <<rawText, parsed, fieldVars, handled, failures, parsedFrom, earlier>>
    /\ UNCHANGED outsideItem

\* The body of get_items that builds the list anew: MomentItem(child, self)
\* for the node of the post, whose text is not blank.
Rebuild ==
    /\ listItems' = "list"
    /\ parsed' = FALSE
    /\ nickname' = <<>>
    /\ content' = <<>>
    /\ itemTime' = <<>>
    /\ likesLine' = <<>>
    /\ commentLines' = <<>>
    /\ imageCount' = 0
    /\ isAd' = FALSE
    /\ handled' = <<>>
    /\ parsedFrom' = <<>>
    /\ earlier' = IF parsed
                  THEN earlier \cup {[text |-> parsedFrom, fields |-> fieldVars]}
                  ELSE earlier

\* MomentList.get_items(refresh)
GetItems ==
    /\ \E refresh \in BOOLEAN :
          IF refresh \/ listItems = "None"
          THEN Rebuild
          ELSE UNCHANGED <<parsed, fieldVars, handled, cacheVars>>
    /\ UNCHANGED <<rawText, failures>>
    /\ UNCHANGED outsideItem

CacheInit ==
    /\ LockIdle
    /\ LocIdle
    /\ BfsIdle
    /\ ItemFresh
    /\ CacheIdle
    /\ rawText \in CachePosts
    /\ CallIdle

CacheNext ==
    \/ EnsureParsed
    \/ EnsureParsedRaises
    \/ TextChanges
    \/ ListRefresh
    \/ GetItems

SpecCache == CacheInit /\ [][CacheNext]_vars

\* the fields of a parsed post stay as they are while the post is kept
Frozen == (parsed /\ parsed') => fieldVars' = fieldVars

\* a parsed post is replaced by a fresh one in get_items only
OnlyByRefresh == (parsed /\ ~parsed') => GetItems

\* a post parsed from a text has the fields of every earlier parse of it
SameOutput ==
    parsed => \A e \in earlier : e.text = parsedFrom => e.fields = fieldVars

\* C16: a post is parsed on the first read of a parsed property and never
\* again on later reads, whatever happens to the text of its node; only
\* refresh() and get_items(refresh=True) discard the parsed post, and the
\* post that replaces it, parsed from the same text, has the same fields.
C16_LazyCache == []SameOutput /\ [][Frozen /\ OnlyByRefresh]_vars

\* ------------------------------------------------------------------------
\* SessionElement (ui/sessionbox.py)
\* ------------------------------------------------------------------------

\* the pattern of unread_count: "[", digits, 条, "]"
UnreadPattern(line) ==
    <<Item({"["}, 1, 1), Item(Digits, 1, Len(line)), Item({"u"}, 1, 1), Item({"]"}, 1, 1)>>

\* int(match.group(1)) of the leftmost match in the line
UnreadValue(line) ==
    LET ps == {p \in 1..Len(line) : MatchFrom(line, p, UnreadPattern(line), 1)}
        at == CHOOSE p \in ps : \A q \in ps : p <= q
        n == CHOOSE m \in 1..Len(line) :
                /\ \A j \in (at + 1)..(at + m) : line[j] \in Digits
                /\ line[at + m + 1] = "u"
    IN  ToInt(SubSeq(line, at + 1, at + n))

\* SessionElement.texts
Texts(sessionContent) == SelectSeq(SplitOn(sessionContent, <<"\n">>, <<>>), NonBlank)

\* SessionElement.name
SessionName(sessionContent) ==
    LET texts == Texts(sessionContent)
    IN  IF texts # <<>> THEN texts[1] ELSE <<>>

\* the loop of unread_count over the lines
RECURSIVE FirstUnread(_)
FirstUnread(texts) ==
    IF texts = <<>> THEN 0
    ELSE IF Search(UnreadPattern(Head(texts)), Head(texts)) THEN UnreadValue(Head(texts))
    ELSE FirstUnread(Tail(texts))

\* SessionElement.unread_count
UnreadCount(sessionContent) == FirstUnread(Texts(sessionContent))

\* The names of the nodes of the session list: up to MaxSessionLines lines.
SessionLinePool ==
    { <<>>,
      <<" ">>,
      <<"a", "b">>,
      <<" ", "a">>,
      <<"[", "3", "u", "]">>,
      <<"x", "[", "1", "2", "u", "]", "[", "4", "u", "]">>,
      <<"[", "u", "]", "5">> }
SessionContents == { Join(ls) : ls \in SeqsUpTo(SessionLinePool, MaxSessionLines) }

ReadName ==
    /\ ~callDone
    /\ callArg.fn = "name"
    /\ callRet' = SessionName(callArg.content)
    /\ callDone' = TRUE
    /\ UNCHANGED callArg
    /\ UNCHANGED outsideCall

ReadUnreadCount ==
    /\ ~callDone
    /\ callArg.fn = "unread_count"
    /\ callRet' = UnreadCount(callArg.content)
    /\ callDone' = TRUE
    /\ UNCHANGED callArg
    /\ UNCHANGED outsideCall

SessionInit ==
    /\ LockIdle /\ LocIdle /\ BfsIdle /\ ItemFresh /\ CacheIdle
    /\ rawText = <<>>
    /\ callArg \in {[fn |-> f, content |-> c] : f \in {"name", "unread_count"}, c \in SessionContents}
    /\ callRet = <<>>
    /\ callDone = FALSE

SessionNext == ReadName \/ ReadUnreadCount

SpecSession == SessionInit /\ [][SessionNext]_vars

\* C17: the name of a session is line 0 of the non-blank lines of the text
\* of its node, and its unread count is the number of the first pattern
\* "[n条]" found in the lines after line 0, 0 when none of them has one.
C17_SessionSummary ==
    callDone =>
        LET lines == SelectSeq(SplitOn(callArg.content, <<"\n">>, <<>>), NonBlank)
        IN  /\ callArg.fn = "name" => callRet = IF lines = <<>> THEN <<>> ELSE lines[1]
            /\ callArg.fn = "unread_count" =>
                    callRet = IF lines = <<>> THEN 0 ELSE FirstUnread(Tail(lines))

\* ------------------------------------------------------------------------
\* Message (msgs/base.py)
\* ------------------------------------------------------------------------

\* A message is an instance and its __dict__, a function from attribute
\* names to values; the values are written as strings, PyNone for None.
PyNone == "None"
Absent == "absent"
Instances == {"o1", "o2"}
IdValues == {"i1", "i2"}
HashValues == {"h1", "h2"}
ContentValues == {"c1", "c2"}

\* Message._EXCLUDE_FIELDS
ExcludeFields == {"control", "parent", "root"}

\* key.startswith("_")
PrivateNames == {"_seen"}

\* the __dict__ BaseMessage.__init__ and the subclasses fill in
MsgDict(id, hash, body) ==
    [k \in {"parent", "control", "root", "content", "_seen"}
            \cup (IF id = Absent THEN {} ELSE {"id"})
            \cup (IF hash = Absent THEN {} ELSE {"hash"}) |->
        CASE k = "id" -> id
          [] k = "hash" -> hash
          [] k = "content" -> body
          [] OTHER -> "w"]

MsgDicts ==
    { MsgDict(id, hash, body) :
        id \in IdValues \cup {PyNone, Absent},
        hash \in HashValues \cup {Absent},
        body \in ContentValues }

\* getattr(msg, name, None)
GetAttr(msg, name) == IF name \in DOMAIN msg.dict THEN msg.dict[name] ELSE PyNone

\* Message.__eq__(self, other), both being messages
MessageEq_HashFirst(self, other, hashMode) ==
    IF hashMode
    THEN GetAttr(self, "hash") = GetAttr(other, "hash")
    ELSE IF GetAttr(self, "id") # PyNone /\ GetAttr(other, "id") # PyNone
    THEN GetAttr(self, "id") = GetAttr(other, "id")
    ELSE self.inst = other.inst

MessageEq(self, other, hashMode) ==
    IF GetAttr(self, "id") # PyNone /\ GetAttr(other, "id") # PyNone
    THEN GetAttr(self, "id") = GetAttr(other, "id")
    ELSE IF hashMode
    THEN GetAttr(self, "hash") = GetAttr(other, "hash")
    ELSE self.inst = other.inst

\* Message.__hash__(self): the hash of a value is written as the value, the
\* hash of object.__hash__ as the instance.
MessageHash(self, hashMode) ==
    IF GetAttr(self, "id") # PyNone THEN <<"value", GetAttr(self, "id")>>
    ELSE IF hashMode THEN <<"value", GetAttr(self, "hash")>>
    ELSE <<"object", self.inst>>

\* Message._iter_public_items, as the set of the keys it yields
PublicKeys(msg, hashMode) ==
    { k \in DOMAIN msg.dict :
        /\ k \notin PrivateNames
        /\ k \notin ExcludeFields
        /\ ~(k = "hash" /\ ~hashMode) }

\* Message.to_dict().get(key)
DataGet(msg, hashMode, key) ==
    IF key \in PublicKeys(msg, hashMode) THEN msg.dict[key] ELSE PyNone

\* Message.match(**conditions)
MessageMatch(msg, hashMode, conditions) ==
    \A key \in DOMAIN conditions : DataGet(msg, hashMode, key) = conditions[key]

\* A pair of messages to compare and to hash; one instance has one __dict__.
IdentityCalls ==
    {[fn |-> "identity", a |-> [inst |-> "o1", dict |-> da],
      b |-> [inst |-> ib, dict |-> db], hashMode |-> hm] :
        da \in MsgDicts, db \in MsgDicts, ib \in Instances, hm \in BOOLEAN}
    \ {c \in [fn : {"identity"}, a : [inst : {"o1"}, dict : MsgDicts],
              b : [inst : {"o1"}, dict : MsgDicts], hashMode : BOOLEAN] : c.a # c.b}

\* The conditions of a call of match: up to MaxConditions of them.
ConditionKeys == {"id", "hash", "content", "control", "nonexistent"}
ConditionValues == {PyNone, "i1", "h1", "c1"}
Conditions ==
    UNION { [K -> ConditionValues] :
            K \in {S \in SUBSET ConditionKeys : Cardinality(S) <= MaxConditions} }

MatchCalls ==
    {[fn |-> "match", a |-> [inst |-> "o1", dict |-> d], hashMode |-> hm, conditions |-> cs] :
        d \in MsgDicts, hm \in BOOLEAN, cs \in Conditions}

\* the results so far, with one more
Noted(name, value) ==
    [k \in DOMAIN callRet \cup {name} |-> IF k = name THEN value ELSE callRet[k]]

\* a == b
MsgEq ==
    /\ callArg.fn = "identity"
    /\ "eq" \notin DOMAIN callRet
    /\ callRet' = Noted("eq", MessageEq(callArg.a, callArg.b, callArg.hashMode))
    /\ callDone' = (DOMAIN callRet' = {"eq", "a", "b"})
    /\ UNCHANGED callArg
    /\ UNCHANGED outsideCall

\* hash(a) or hash(b)
MsgHash ==
    /\ callArg.fn = "identity"
    /\ \E which \in {"a", "b"} \ DOMAIN callRet :
          callRet' = Noted(which, MessageHash(callArg[which], callArg.hashMode))
    /\ callDone' = (DOMAIN callRet' = {"eq", "a", "b"})
    /\ UNCHANGED callArg
    /\ UNCHANGED outsideCall

\* a.match(**conditions)
MsgMatch ==
    /\ ~callDone
    /\ callArg.fn = "match"
    /\ callRet' = MessageMatch(callArg.a, callArg.hashMode, callArg.conditions)
    /\ callDone' = TRUE
    /\ UNCHANGED callArg
    /\ UNCHANGED outsideCall

\* the order in which __init__ sets the attributes, that of __dict__
AttrOrder == <<"parent", "control", "root", "id", "content", "hash", "_seen">>

\* Message._iter_public_items, as the sequence of pairs it yields
IsPublic(msg, hashMode, k) ==
    /\ k \in DOMAIN msg.dict
    /\ ~(k \in PrivateNames \/ k \in ExcludeFields)
    /\ ~(k = "hash" /\ ~hashMode)

RECURSIVE ItemsFrom(_, _, _)
ItemsFrom(msg, hashMode, order) ==
    IF order = <<>> THEN <<>>
    ELSE (IF IsPublic(msg, hashMode, Head(order))
          THEN <<<<Head(order), msg.dict[Head(order)]>>>> ELSE <<>>)
         \o ItemsFrom(msg, hashMode, Tail(order))

PublicItems(msg, hashMode) == ItemsFrom(msg, hashMode, AttrOrder)

\* Message.keys() and Message.__iter__
MessageKeys(msg, hashMode) ==
    LET items == PublicItems(msg, hashMode) IN [i \in 1..Len(items) |-> items[i][1]]

\* Message.values()
MessageValues(msg, hashMode) ==
    LET items == PublicItems(msg, hashMode) IN [i \in 1..Len(items) |-> items[i][2]]

\* Message.__len__
MessageLen(msg, hashMode) == Len(PublicItems(msg, hashMode))

\* Message.__contains__(key), key being a string
MessageContains_AnyAttribute(msg, hashMode, key) == key \in DOMAIN msg.dict

MessageContains(msg, hashMode, key) ==
    \E i \in 1..Len(PublicItems(msg, hashMode)) : PublicItems(msg, hashMode)[i][1] = key

\* Message.__getitem__(item): the value, or KeyError
MessageGetItem(msg, hashMode, item) ==
    LET items == PublicItems(msg, hashMode)
        found == {i \in 1..Len(items) : items[i][1] = item}
    IN  IF found = {} THEN [ok |-> FALSE, value |-> "KeyError"]
        ELSE [ok |-> TRUE, value |-> items[CHOOSE i \in found : \A j \in found : i <= j][2]]

\* Message.get(key, default)
MessageGet(msg, hashMode, key, default) ==
    LET r == MessageGetItem(msg, hashMode, key)
    IN  IF r.ok THEN r.value ELSE default

\* One message, one field name and one default, for the accessors.
FieldNames == {"id", "hash", "content", "control", "parent", "root", "_seen", "nonexistent"}
AccessCalls ==
    {[fn |-> "access", a |-> [inst |-> "o1", dict |-> d], hashMode |-> hm, key |-> k,
      default |-> "d"] : d \in MsgDicts, hm \in BOOLEAN, k \in FieldNames}

\* the accessor name has not been called yet on the message
Access(name) == callArg.fn = "access" /\ name \notin DOMAIN callRet

\* the rest of a call of an accessor
Accessed ==
    /\ callDone' = (Cardinality(DOMAIN callRet') = 9)
    /\ UNCHANGED callArg
    /\ UNCHANGED outsideCall

\* a.keys()
MsgKeys ==
    /\ Access("keys")
    /\ callRet' = Noted("keys", MessageKeys(callArg.a, callArg.hashMode))
    /\ Accessed

\* list(iter(a))
MsgIter ==
    /\ Access("iter")
    /\ callRet' = Noted("iter", MessageKeys(callArg.a, callArg.hashMode))
    /\ Accessed

\* a.values()
MsgValues ==
    /\ Access("values")
    /\ callRet' = Noted("values", MessageValues(callArg.a, callArg.hashMode))
    /\ Accessed

\* a.items()
MsgItems ==
    /\ Access("items")
    /\ callRet' = Noted("items", PublicItems(callArg.a, callArg.hashMode))
    /\ Accessed

\* a.to_dict(), as the pairs of the dict in order
MsgToDict ==
    /\ Access("to_dict")
    /\ callRet' = Noted("to_dict", PublicItems(callArg.a, callArg.hashMode))
    /\ Accessed

\* len(a)
MsgLen ==
    /\ Access("len")
    /\ callRet' = Noted("len", MessageLen(callArg.a, callArg.hashMode))
    /\ Accessed

\* key in a
MsgContains ==
    /\ Access("contains")
    /\ callRet' = Noted("contains", MessageContains(callArg.a, callArg.hashMode, callArg.key))
    /\ Accessed

\* a[key]
MsgGetItem ==
    /\ Access("getitem")
    /\ callRet' = Noted("getitem", MessageGetItem(callArg.a, callArg.hashMode, callArg.key))
    /\ Accessed

\* a.get(key, default)
MsgGet ==
    /\ Access("get")
    /\ callRet' = Noted("get", MessageGet(callArg.a, callArg.hashMode, callArg.key, callArg.default))
    /\ Accessed

MessageInit ==
    /\ LockIdle /\ LocIdle /\ BfsIdle /\ ItemFresh /\ CacheIdle
    /\ rawText = <<>>
    /\ callArg \in IdentityCalls \cup MatchCalls \cup AccessCalls
    /\ callRet = <<>>
    /\ callDone = FALSE

MessageNext ==
    \/ MsgEq
    \/ MsgHash
    \/ MsgMatch
    \/ MsgKeys
    \/ MsgIter
    \/ MsgValues
    \/ MsgItems
    \/ MsgToDict
    \/ MsgLen
    \/ MsgContains
    \/ MsgGetItem
    \/ MsgGet

SpecMessage == MessageInit /\ [][MessageNext]_vars

\* the record carries an external id
HasId(msg) == "id" \in DOMAIN msg.dict /\ msg.dict["id"] # PyNone

\* C18: two messages that carry the same external id are equal whatever
\* their content and hash; two messages without an external id, with hash
\* mode off, are equal only if they are the same instance.
C18_RecordEquality ==
    (callArg.fn = "identity" /\ "eq" \in DOMAIN callRet) =>
        /\ (HasId(callArg.a) /\ HasId(callArg.b) /\ callArg.a.dict["id"] = callArg.b.dict["id"])
                => callRet["eq"]
        /\ (~HasId(callArg.a) /\ ~HasId(callArg.b) /\ ~callArg.hashMode)
                => (callRet["eq"] => callArg.a.inst = callArg.b.inst)

\* Two instances with the same id, different contents and different hashes
\* have been compared with hash mode on.
C18_Witness ==
    /\ callArg.fn = "identity"
    /\ "eq" \in DOMAIN callRet
    /\ callArg.hashMode
    /\ callArg.a.inst # callArg.b.inst
    /\ HasId(callArg.a) /\ HasId(callArg.b)
    /\ callArg.a.dict["id"] = callArg.b.dict["id"]
    /\ callArg.a.dict["content"] # callArg.b.dict["content"]
    /\ "hash" \in DOMAIN callArg.a.dict /\ "hash" \in DOMAIN callArg.b.dict
    /\ callArg.a.dict["hash"] # callArg.b.dict["hash"]
    /\ callRet["eq"]

\* C19: for every pair of messages, with or without an external id on each
\* and with hash mode on or off, a == b implies hash(a) == hash(b).
C19_EqImpliesHash ==
    (callArg.fn = "identity" /\ callDone /\ callRet["eq"]) => callRet["a"] = callRet["b"]

\* C20: match is true iff every field named in the conditions is a public
\* field of the message whose value equals the one supplied; a condition on
\* a field the message does not have makes it false, whatever the value.
C20_Match ==
    (callArg.fn = "match" /\ callDone) =>
        (callRet <=>
            \A key \in DOMAIN callArg.conditions :
                /\ key \in PublicKeys(callArg.a, callArg.hashMode)
                /\ callArg.a.dict[key] = callArg.conditions[key])

\* the name is among the names
Listed(name, names) == \E i \in 1..Len(names) : names[i] = name

\* C21: a field name is listed by keys() and by iteration iff contains is
\* true iff the indexed lookup returns a value; get returns that value for
\* a listed name and the default otherwise; len is the number of names
\* listed; keys(), values(), items() and to_dict() list the same fields in
\* the same order; control, parent, root and names that start with an
\* underscore are never listed.
C21_UniformAccess ==
    (callArg.fn = "access" /\ callDone) =>
        LET r == callRet
            k == callArg.key
        IN  /\ r["iter"] = r["keys"]
            /\ Listed(k, r["keys"]) <=> r["contains"]
            /\ r["contains"] <=> r["getitem"].ok
            /\ r["get"] = IF Listed(k, r["keys"]) THEN r["getitem"].value ELSE callArg.default
            /\ r["getitem"].ok => r["getitem"].value = callArg.a.dict[k]
            /\ r["len"] = Len(r["keys"])
            /\ Len(r["values"]) = Len(r["keys"])
            /\ r["items"] = [i \in 1..Len(r["keys"]) |-> <<r["keys"][i], r["values"][i]>>]
            /\ r["to_dict"] = r["items"]
            /\ \A i \in 1..Len(r["keys"]) :
                    r["keys"][i] \notin {"control", "parent", "root", "_seen"}

\* Every accessor has been called for the name hash on a message that has
\* a hash, with hash mode off: the name is not listed and the default is
\* returned while id and content are listed.
C21_Witness ==
    /\ callArg.fn = "access"
    /\ callDone
    /\ callArg.key = "hash"
    /\ "hash" \in DOMAIN callArg.a.dict
    /\ ~callArg.hashMode
    /\ callRet["get"] = callArg.default
    /\ callRet["keys"] = <<"id", "content">>

\* the thread lock is held only inside the process lock, by its holder
ThreadInsideProcess ==
    rlockCount > 0 => (processLock # NoOne /\ rlockOwner = ThreadOf(processLock))

\* an asyncio lock is held only inside the process lock and the thread lock
AsyncInnermost ==
    \A k \in LockIds :
        lockHeld[k] # NoOne =>
            (processLock = lockHeld[k] /\ rlockCount > 0 /\ rlockOwner = ThreadOf(lockHeld[k]))

\* C27: on every path the process lock is taken outermost, the thread lock
\* inside it and the asyncio lock innermost, and they are released in the
\* reverse order: whoever holds an inner tier holds the tiers around it.
C27_TierOrder == ThreadInsideProcess /\ AsyncInnermost

\* ------------------------------------------------------------------------
\* BaseMessage.__init__, exists and the HumanMessage operations
\* (msgs/base.py).  A call returns a result and leaves a log of what it did
\* to the UI, in order.
\* ------------------------------------------------------------------------

\* heights and widths of the bounding rectangles
Extents == {0, 1, 2, 11, 12}
Nodes2D == [live : BOOLEAN, height : Extents, width : Extents]

\* the result of a call and the interactions it issued
Outcome(result, log) == [result |-> result, log |-> log]

\* BaseMessage.exists()
NodeExists(node) == node.live /\ node.height > 0

\* str(n) for n >= 0
RECURSIVE FormatInt(_)
FormatInt(n) ==
    IF n < 10 THEN <<DigitSeq[n + 1]>>
    ELSE FormatInt(n \div 10) \o <<DigitSeq[(n % 10) + 1]>>

\* f'({rect.height()},{rect.width()}){self.content}'
HashText_NoComma(height, width, text) ==
    <<"(">> \o FormatInt(height) \o FormatInt(width) \o <<")">> \o text

HashText(height, width, text) ==
    <<"(">> \o FormatInt(height) \o <<",">> \o FormatInt(width) \o <<")">> \o text

\* md5(...).hexdigest(), taken as injective
Md5(text) == <<"md5">> \o text

\* the content and the hash BaseMessage.__init__ sets from the node
Construct(node) ==
    [content |-> node.text, hash |-> Md5(HashText(node.height, node.width, node.text))]

\* HumanMessage.select_option(option, timeout), its lock taken: the menu is
\* a Menu of ui/component.py, truthy when it was found; select returns a
\* result of its own.
SelectOption(node, env) ==
    IF ~NodeExists(node) THEN Outcome("failure", <<>>)
    ELSE IF env.clickRaises THEN Outcome("raised", <<"right_click">>)
    ELSE IF ~env.menuFound THEN Outcome("failure", <<"right_click", "menu_lookup">>)
    ELSE Outcome(IF env.selectOk THEN "success" ELSE "failure",
                 <<"right_click", "menu_lookup", "menu_select">>)

\* HumanMessage.forward and HumanMessage.quote: wrapped by uilock, they
\* call the uilock-wrapped select_option on the thread that holds
\* process_lock, and the nested acquire never returns.
ForwardOrQuote(node, env) ==
    IF ~NodeExists(node) THEN Outcome("failure", <<>>)
    ELSE Outcome("blocked", <<>>)

MenuEnvs == [clickRaises : BOOLEAN, menuFound : BOOLEAN, selectOk : BOOLEAN]
NodeTexts == { <<>>, <<"a">>, <<"1", "a">>, <<"2", ")", "a">> }

MessageOpCalls ==
    {[fn |-> "exists", node |-> n] : n \in Nodes2D}
    \cup {[fn |-> f, node |-> n, env |-> e] :
            f \in {"select_option", "forward", "quote"}, n \in Nodes2D, e \in MenuEnvs}

ConstructCalls ==
    {[fn |-> "construct",
      n1 |-> [height |-> h1, width |-> w1, text |-> t1],
      n2 |-> [height |-> h2, width |-> w2, text |-> t2]] :
        h1 \in Extents, w1 \in Extents, t1 \in NodeTexts,
        h2 \in Extents, w2 \in Extents, t2 \in NodeTexts}

\* the call has ended (or is blocked for good) with this value
Ended(value) ==
    /\ callRet = <<>>
    /\ ~callDone
    /\ callRet' = value
    /\ callDone' = TRUE
    /\ UNCHANGED callArg
    /\ UNCHANGED outsideCall

CallExists ==
    /\ callArg.fn = "exists"
    /\ Ended(Outcome(NodeExists(callArg.node), <<>>))

CallSelectOption ==
    /\ callArg.fn = "select_option"
    /\ Ended(SelectOption(callArg.node, callArg.env))

CallForward ==
    /\ callArg.fn = "forward"
    /\ Ended(ForwardOrQuote(callArg.node, callArg.env))

CallQuote ==
    /\ callArg.fn = "quote"
    /\ Ended(ForwardOrQuote(callArg.node, callArg.env))

\* two messages are built from two nodes
CallConstruct ==
    /\ callArg.fn = "construct"
    /\ Ended(<<Construct(callArg.n1), Construct(callArg.n2)>>)

\* ------------------------------------------------------------------------
\* Moment.Like, Moment.Comment, MomentActionMenu and MomentCommentDialog
\* (moment.py).  A run is the log of the interactions issued so far, the
\* number of calls made to the binding, and whether the last one returned;
\* the call numbered `at` raises (none when at = 0).
\* ------------------------------------------------------------------------

Run0 == [log |-> <<>>, n |-> 0, ok |-> TRUE]

\* one call to the binding; ev names the interaction, "" for a read
Call(r, at, ev) ==
    [log |-> IF ev = "" THEN r.log ELSE Append(r.log, ev),
     n |-> r.n + 1,
     ok |-> (r.n + 1 # at)]

\* a run and the value computed with it
With(r, v) == [r |-> r, v |-> v]

\* Moment._invoke_action_menu(item): "menu", "none" for None, or "raised"
InvokeActionMenu(r0, env, at) ==
    LET r1 == Call(r0, at, "")
        button == r1.ok /\ env.hasButton
        r2 == Call(r1, at, IF button THEN "click_action" ELSE "right_click_item")
        r3 == Call(r2, at, "")
        r4 == Call(r3, at, "")
    IN  IF ~r2.ok THEN With(r2, IF button THEN "raised" ELSE "none")
        ELSE IF ~r3.ok THEN With(r3, "raised")
        ELSE IF ~env.menuFound THEN With(r3, "none")
        ELSE IF ~r4.ok THEN With(r4, "none")
        ELSE With(r4, "menu")

\* MomentActionMenu.like / comment: _find_button and the click on it
MenuButton(r0, env, at, ev) ==
    LET r1 == Call(r0, at, "")
        r2 == Call(r1, at, "")
        r3 == Call(r2, at, ev)
    IN  IF ~r1.ok THEN With(r1, "failure")
        ELSE IF ~r2.ok THEN With(r2, "raised")
        ELSE IF ~env.hasTarget THEN With(r2, "failure")
        ELSE IF ~r3.ok THEN With(r3, "raised")
        ELSE With(r3, "success")

\* MomentActionMenu.close(), which swallows the error of SendKeys
Close(r, at) == [Call(r, at, "esc") EXCEPT !.ok = TRUE]

\* Moment.Like(item, cancel)
\* Fault: the menu closed after like has returned, so not when it raises.
Like_CloseOnReturn(env, at) ==
    LET m == InvokeActionMenu(Run0, env, at)
        b == MenuButton(m.r, env, at, "click_like")
    IN  IF m.v = "raised" THEN Outcome("raised", m.r.log)
        ELSE IF m.v = "none" THEN Outcome("failure", m.r.log)
        ELSE IF b.v = "raised" THEN Outcome(b.v, b.r.log)
        ELSE Outcome(b.v, Close(b.r, at).log)

Like(env, at) ==
    LET m == InvokeActionMenu(Run0, env, at)
        b == MenuButton(m.r, env, at, "click_like")
    IN  IF m.v = "raised" THEN Outcome("raised", m.r.log)
        ELSE IF m.v = "none" THEN Outcome("failure", m.r.log)
        ELSE Outcome(b.v, Close(b.r, at).log)

\* for ch in content: self.edit.SendKeys(ch)
RECURSIVE TypeKeys(_, _, _)
TypeKeys(r, at, text) ==
    IF text = <<>> \/ ~r.ok THEN r
    ELSE TypeKeys(Call(r, at, Head(text)), at, Tail(text))

\* the body of the try statement of send, left at the first call that raises
RECURSIVE Steps(_, _, _)
Steps(r, at, evs) ==
    IF evs = <<>> \/ ~r.ok THEN r
    ELSE Steps(Call(r, at, Head(evs)), at, Tail(evs))

\* MomentCommentDialog.send(content)
Send_SubmitFirst(r0, env, at, text) ==
    LET r1 == Call(r0, at, "")
        r2 == Call(r1, at, "")
        r3 == Steps(r2, at, <<"click_send", "focus", "select_all", "clipboard_set", "paste">>)
    IN  IF ~env.dialogFound \/ ~r1.ok THEN With(r1, "failure")
        ELSE IF text = <<>> THEN With(r1, "failure")
        ELSE IF ~env.editFound THEN With(r1, "failure")
        ELSE IF ~r2.ok THEN With(r2, "raised")
        ELSE With(r3, IF r3.ok THEN "success" ELSE "failure")

Send(r0, env, at, text) ==
    LET r1 == Call(r0, at, "")
        r2 == Call(r1, at, "")
        r3 == Steps(r2, at, <<"focus", "select_all">>)
        r4 == IF env.clipboard
              THEN Steps(r3, at, <<"clipboard_set", "paste">>)
              ELSE TypeKeys(r3, at, text)
        r5 == IF env.hasSendButton
              THEN Steps(r4, at, <<"", "click_send">>)
              ELSE Steps(r4, at, <<"enter">>)
    IN  IF ~env.dialogFound \/ ~r1.ok THEN With(r1, "failure")
        ELSE IF text = <<>> THEN With(r1, "failure")
        ELSE IF ~env.editFound THEN With(r1, "failure")
        ELSE IF ~r2.ok THEN With(r2, "raised")
        ELSE With(r5, IF r5.ok THEN "success" ELSE "failure")

\* MomentCommentDialog(self) and dialog.exists(0.5), then dialog.send
Dialog(r0, env, at, text) ==
    LET r1 == Call(r0, at, "locate_dialog")
        r2 == Call(r1, at, "")
        s == Send(r2, env, at, text)
    IN  IF ~r1.ok THEN With(r1, "raised")
        ELSE IF ~env.dialogFound \/ ~r2.ok THEN With(r2, "failure")
        ELSE s

\* Moment.Comment(item, content, reply_to)
Comment(env, at, text, reply_to) ==
    IF reply_to # <<>>
    THEN LET r1 == Steps(Run0, at, <<"", "">>)
             r2 == Call(r1, at, "click_reply")
             d == Dialog(r2, env, at, text)
         IN  IF ~r1.ok THEN Outcome("raised", r1.log)
             ELSE IF ~env.hasComment THEN Outcome("failure", r1.log)
             ELSE IF ~env.hasCtrl THEN Outcome("failure", r1.log)
             ELSE IF ~r2.ok THEN Outcome("raised", r2.log)
             ELSE Outcome(d.v, d.r.log)
    ELSE LET m == InvokeActionMenu(Run0, env, at)
             b == MenuButton(m.r, env, at, "click_comment")
             c == Close(b.r, at)
             d == Dialog(c, env, at, text)
         IN  IF m.v = "raised" THEN Outcome("raised", m.r.log)
             ELSE IF m.v = "none" THEN Outcome("failure", m.r.log)
             ELSE IF b.v # "success" THEN Outcome(b.v, c.log)
             ELSE Outcome(d.v, d.r.log)

\* ------------------------------------------------------------------------
\* SessionBox.switch_chat and open_separate_window (ui/sessionbox.py)
\* ------------------------------------------------------------------------

\* " W: " is written for ' 微信号: ' and " N: " for ' 昵称: '.
WxIdLabel == <<" ", "W", ":", " ">>
NickLabel == <<" ", "N", ":", " ">>

\* str.lower()
Lower(text) ==
    [i \in 1..Len(text) |->
        CASE text[i] = "A" -> "a"
          [] text[i] = "B" -> "b"
          [] OTHER -> text[i]]

\* text.split(label)[-1] and text.split(label)[0]
LastPart(text, label) == LET parts == SplitOn(text, label, <<>>) IN parts[Len(parts)]
FirstPart(text, label) == SplitOn(text, label, <<>>)[1]

\* the tests of switch_chat on one item: the value returned when the item
\* is clicked, NoMatch otherwise
ItemMatch(text, keywords, exact) ==
    IF exact
    THEN IF text = keywords THEN [ok |-> TRUE, value |-> keywords]
         ELSE IF Contains(text, WxIdLabel) /\ Lower(LastPart(text, WxIdLabel)) = Lower(keywords)
         THEN [ok |-> TRUE, value |-> FirstPart(text, WxIdLabel)]
         ELSE IF Contains(text, NickLabel) /\ Lower(LastPart(text, NickLabel)) = Lower(keywords)
         THEN [ok |-> TRUE, value |-> FirstPart(text, NickLabel)]
         ELSE NoMatch
    ELSE IF Contains(text, keywords) THEN [ok |-> TRUE, value |-> text] ELSE NoMatch

\* SessionBox.switch_chat(keywords, exact): the search is typed, the list of
\* results is scanned until the timeout, and the overlay is dismissed when
\* nothing was clicked.  The list stays as it is while it is polled.
SwitchChat(items, keywords, exact) ==
    LET hits == {i \in 1..Len(items) : ItemMatch(items[i], keywords, exact).ok}
        first == CHOOSE i \in hits : \A j \in hits : i <= j
    IN  IF hits = {}
        THEN [result |-> "None", value |-> <<>>, clicked |-> 0,
              log |-> <<"search", "middle_click">>]
        ELSE [result |-> "text", value |-> ItemMatch(items[first], keywords, exact).value,
              clicked |-> first, log |-> <<"search", "click_item">>]

\* SessionBox.open_separate_window(name): visible is the number of sessions
\* of the list that are in the window, opened whether the first of them is
\* the session searched for.
OpenSeparateWindow(items, keywords, visible, opened) ==
    LET found == SwitchChat(items, keywords, TRUE)
    IN  IF found.result = "None" \/ found.value = <<>> THEN Outcome("failure", found.log)
        ELSE IF visible = 0 THEN Outcome("raised", found.log)
        ELSE IF ~opened THEN Outcome("blocked", found.log)
        ELSE Outcome("success", Append(found.log, "double_click"))

ItemTexts ==
    { <<"a", "b">>, <<"A", "B">>, <<"x", "a", "b">>, <<"c">>,
      <<"c">> \o WxIdLabel \o <<"a", "b">>,
      <<"c">> \o NickLabel \o <<"A", "B">>,
      <<"c">> \o NickLabel \o <<"a", "b">> \o NickLabel \o <<"d">> }
Keywords == { <<"a", "b">>, <<"A", "B">> }

SessionCalls ==
    {[fn |-> "switch_chat", items |-> is, keywords |-> k, exact |-> e] :
        is \in SeqsUpTo(ItemTexts, MaxItems), k \in Keywords, e \in BOOLEAN}
    \cup {[fn |-> "open_separate_window", items |-> <<i>>, keywords |-> <<"a", "b">>,
           visible |-> v, opened |-> o] :
            i \in ItemTexts, v \in 0..1, o \in BOOLEAN}

\* What the operations of Moment find: the action button of the post, the
\* menu, the button wanted in the menu, the comment replied to and its
\* control, the dialog, its input box, the clipboard helper, its send
\* button.
Flags == {"hasButton", "menuFound", "hasTarget", "hasComment", "hasCtrl",
          "dialogFound", "editFound", "clipboard", "hasSendButton"}
EnvsOver(used) == { e \in [Flags -> BOOLEAN] : \A f \in Flags \ used : ~e[f] }
CommentTexts == { <<>>, <<"x">>, <<"x", "y">> }

MomentCalls ==
    {[fn |-> "Like", env |-> e, at |-> a] :
        e \in EnvsOver({"hasButton", "menuFound", "hasTarget"}), a \in 0..MaxRaiseAt}
    \cup {[fn |-> "Comment", env |-> e, at |-> a, text |-> t, reply_to |-> r] :
            e \in EnvsOver(Flags), a \in 0..MaxRaiseAt, t \in CommentTexts,
            r \in {<<>>, <<"a">>}}
    \cup {[fn |-> "send", env |-> e, at |-> a, text |-> t] :
            e \in EnvsOver({"dialogFound", "editFound", "clipboard", "hasSendButton"}),
            a \in 0..MaxRaiseAt, t \in CommentTexts}

CallLike ==
    /\ callArg.fn = "Like"
    /\ Ended(Like(callArg.env, callArg.at))

CallComment ==
    /\ callArg.fn = "Comment"
    /\ Ended(Comment(callArg.env, callArg.at, callArg.text, callArg.reply_to))

CallSend ==
    /\ callArg.fn = "send"
    /\ \E s \in {Send(Run0, callArg.env, callArg.at, callArg.text)} :
          Ended(Outcome(s.v, s.r.log))

CallSwitchChat ==
    /\ callArg.fn = "switch_chat"
    /\ Ended(SwitchChat(callArg.items, callArg.keywords, callArg.exact))

CallOpenSeparateWindow ==
    /\ callArg.fn = "open_separate_window"
    /\ Ended(OpenSeparateWindow(callArg.items, callArg.keywords, callArg.visible,
                                callArg.opened))

\* The operations on messages, posts and sessions, each called once.
ProtocolInit ==
    /\ LockIdle /\ LocIdle /\ BfsIdle /\ ItemFresh /\ CacheIdle
    /\ rawText = <<>>
    /\ callArg \in MessageOpCalls \cup ConstructCalls \cup MomentCalls \cup SessionCalls
    /\ callRet = <<>>
    /\ callDone = FALSE

ProtocolNext ==
    \/ CallExists
    \/ CallSelectOption
    \/ CallForward
    \/ CallQuote
    \/ CallConstruct
    \/ CallLike
    \/ CallComment
    \/ CallSend
    \/ CallSwitchChat
    \/ CallOpenSeparateWindow

SpecProtocol == ProtocolInit /\ [][ProtocolNext]_vars

\* ------------------------------------------------------------------------
\* Properties of the operations on messages
\* ------------------------------------------------------------------------

\* the rectangle of the node renders something
Rendered(node) == node.height > 0 /\ node.width > 0

\* C22: BaseMessage.exists returns true exactly when the backing node is
\* live and its bounding rectangle has a non-zero rendered extent.
C22_Exists ==
    (callArg.fn = "exists" /\ callDone)
        => (callRet.result <=> (callArg.node.live /\ Rendered(callArg.node)))

\* C29: select_option, forward and quote on a record whose node is not live
\* or has zero extent return a failure result and issue no click, no menu
\* lookup and no text input.
C29_StaleGuard ==
    (/\ callArg.fn \in {"select_option", "forward", "quote"}
     /\ callDone
     /\ ~(callArg.node.live /\ Rendered(callArg.node)))
        => (callRet.result = "failure" /\ callRet.log = <<>>)

\* C30: two records have equal content hashes exactly when their nodes
\* have the same text, the same height and the same width.
C30_HashDeterminism ==
    (callArg.fn = "construct" /\ callDone)
        => ((callRet[1].hash = callRet[2].hash) <=> (callArg.n1 = callArg.n2))

\* two records of the same text whose heights and widths print the same
\* digits have been built, and their hashes differ
C30_Witness ==
    /\ callArg.fn = "construct" /\ callDone
    /\ callArg.n1.text = callArg.n2.text
    /\ callArg.n1.height = 1 /\ callArg.n1.width = 12
    /\ callArg.n2.height = 11 /\ callArg.n2.width = 2
    /\ callRet[1].hash # callRet[2].hash

\* ------------------------------------------------------------------------
\* Properties of the operations on posts and sessions
\* ------------------------------------------------------------------------

\* C23: Moment.Comment with an empty text, or with a reply_to that matches
\* no parsed comment, returns a failure result and has issued no click, no
\* right click and no key injection (no call to the binding raising).
C23_RejectedBeforeInteraction ==
    (/\ callArg.fn = "Comment" /\ callDone /\ callArg.at = 0
     /\ \/ callArg.text = <<>>
        \/ callArg.reply_to # <<>> /\ ~callArg.env["hasComment"])
        => (callRet.result = "failure" /\ callRet.log = <<>>)

\* the operations of the protocol, called where no call to the binding
\* raises
ProtocolCall ==
    /\ callArg.fn \in {"Like", "Comment", "send", "switch_chat", "open_separate_window",
                       "select_option", "forward", "quote"}
    /\ callArg.fn \in {"Like", "Comment", "send"} => callArg.at = 0
    /\ callArg.fn \in {"select_option", "forward", "quote"} => ~callArg.env.clickRaises

\* C24: an operation of the protocol that misses a menu, a button, a
\* dialog, an input box, a comment or a session returns a success or
\* failure result: it raises no error and returns no bare value.
C24_NotFoundNeverRaises ==
    (ProtocolCall /\ callDone) => callRet.result \in {"success", "failure"}

\* the matching of one item of the results against the keyword
ItemMatches(text, keywords, exact) ==
    IF exact
    THEN \/ Lower(text) = Lower(keywords)
         \/ \E label \in {WxIdLabel, NickLabel} :
               /\ Contains(text, label)
               /\ Lower(LastPart(text, label)) = Lower(keywords)
    ELSE Contains(text, keywords)

\* C25: switch_chat clicks the first item, in list order, that equals the
\* keyword in full or by its label suffix without regard to case (exact
\* mode) or that contains the keyword (substring mode); when no item
\* matches it clicks none and reports failure.
C25_SessionSearch ==
    (callArg.fn = "switch_chat" /\ callDone)
        => LET hits == {i \in 1..Len(callArg.items) :
                            ItemMatches(callArg.items[i], callArg.keywords, callArg.exact)}
           IN  IF hits = {}
               THEN callRet.clicked = 0 /\ callRet.result = "None"
               ELSE /\ callRet.clicked \in hits
                    /\ \A j \in hits : callRet.clicked <= j

\* C26: a call to the binding that raises while Like or Comment run does
\* not propagate to the caller.
C26_FailuresContained ==
    (callArg.fn \in {"Like", "Comment"} /\ callDone /\ callArg.at # 0)
        => callRet.result # "raised"

\* the interactions of a complete send, in order
SendSteps(env, text) ==
    <<"focus", "select_all">>
        \o (IF env["clipboard"] THEN <<"clipboard_set", "paste">> ELSE text)
        \o (IF env["hasSendButton"] THEN <<"click_send">> ELSE <<"enter">>)

\* the calls of send to the binding: the two checks, then, from the third
\* on, the steps and the test of the send button
LastStep(env, text) == 2 + Len(SendSteps(env, text)) + (IF env["hasSendButton"] THEN 1 ELSE 0)

IsPrefix(s, t) == Len(s) <= Len(t) /\ s = SubSeq(t, 1, Len(s))

\* C28: send issues nothing unless the dialog exists, the content is not
\* empty and the input box exists; what it issues is a prefix of focus,
\* select all, one mode of injection, one submission; an error at any of
\* these steps gives a failure result; success is returned only after the
\* whole sequence.
C28_SendOrdering ==
    (callArg.fn = "send" /\ callDone)
        => LET env == callArg.env
               steps == SendSteps(env, callArg.text)
               checked == env["dialogFound"] /\ callArg.text # <<>> /\ env["editFound"]
           IN  /\ IsPrefix(callRet.log, steps)
               /\ ~checked => (callRet.result = "failure" /\ callRet.log = <<>>)
               /\ callRet.result = "success" => callRet.log = steps
               /\ (checked /\ callArg.at \in 3..LastStep(env, callArg.text))
                     => callRet.result = "failure"
               /\ (checked /\ callArg.at \notin 1..LastStep(env, callArg.text))
                     => callRet.result = "success"

\* a comment of two characters has been typed key by key and submitted
\* with Enter
C28_Witness ==
    /\ callArg.fn = "send" /\ callDone
    /\ ~callArg.env["clipboard"] /\ ~callArg.env["hasSendButton"]
    /\ callRet.result = "success"
    /\ callRet.log = <<"focus", "select_all", "x", "y", "enter">>

(***************************************************************************)
(* Properties of the asyncio tier of the actor lock.                       *)
(***************************************************************************)

\* every task runs on the same event loop, so no call of _get_async_lock
\* is made under another loop than the one before it
OneLoop == \A a, b \in Tasks : loopOf[a] = loopOf[b]

\* C31: under one running event loop a call of _get_async_lock returns
\* the lock the call before it stored, so the tasks of the loop that are
\* in acquire_async at once all use one asyncio lock.
C31_StableAsyncLock ==
    /\ [](OneLoop => \A a, b \in Tasks :
              (myLock[a] # 0 /\ myLock[b] # 0) => myLock[a] = myLock[b])
    /\ [][\A a \in Tasks :
            (OneLoop /\ pc[a] = "getAsync" /\ pc'[a] = "acqAsync" /\ asyncLock # 0)
            => (myLock'[a] = asyncLock /\ asyncLock' = asyncLock)]_vars

\* The callers of the progress specification: threads calling the wrapped
\* select_option, tasks awaiting a wrapped coroutine or calling the wrapped
\* select_option from their event loop.  No operation makes a nested call.
ProgressInit ==
    /\ LockInit
    /\ menu = {"select_option"} \cup AsyncOps
    /\ LocIdle
    /\ BfsIdle
    /\ ItemFresh
    /\ CacheIdle
    /\ rawText = <<>>
    /\ CallIdle

ProgressStep(c) ==
    \/ StartOp(c)
    \/ AcquireProcess(c)
    \/ AcquireThread(c)
    \/ Touch(c)
    \/ Return(c)
    \/ Raise(c)
    \/ ReleaseThread(c)
    \/ ReleaseProcess(c)

ProgressNext ==
    \/ \E c \in Ctx : ProgressStep(c)
    \/ \E c \in Tasks : AsyncStep(c)

\* The operating system runs every thread that can take a step, an event
\* loop runs its ready tasks, and the body of a section ends.
Scheduling ==
    /\ \A c \in Ctx : WF_vars(ProgressStep(c))
    /\ \A c \in Ctx : SF_vars(Return(c))
    /\ \A c \in Tasks : WF_vars(AsyncStep(c))

SpecProgress == ProgressInit /\ [][ProgressNext]_vars /\ Scheduling

\* the context has started to acquire the lock and is not in its section
Acquiring(c) == pc[c] \in {"getAsync", "acqAsync", "waitAsync", "woken", "acqProc", "acqThread"}

\* C32: every attempt to acquire the lock, by a thread or by a task,
\* eventually enters its section.
C32_DeadlockFree ==
    \A c \in Ctx : Acquiring(c) ~> (pc[c] = "in")

(***************************************************************************)
(* Message.__eq__ as a relation on three records.                          *)
(***************************************************************************)

\* the records compared: an instance is one object, so two records of the
\* same instance are the same record
Records ==
    {[inst |-> i, dict |-> MsgDict(id, hash, "c1")] :
        i \in Instances \cup {"o3"}, id \in IdValues \cup {PyNone, Absent},
        hash \in HashValues \cup {Absent}}

RelationCalls ==
    {c \in [fn : {"relation"}, a : Records, b : Records, c : Records, hashMode : BOOLEAN] :
        /\ c.a.inst = "o1"
        /\ c.b.inst \in {"o1", "o2"}
        /\ c.a.inst = c.b.inst => c.a = c.b
        /\ c.a.inst = c.c.inst => c.a = c.c
        /\ c.b.inst = c.c.inst => c.b = c.c}

\* x == y for every two of the three records
MsgCompare ==
    /\ callArg.fn = "relation"
    /\ callRet = <<>>
    /\ callRet' = [p \in {"a", "b", "c"} \X {"a", "b", "c"} |->
                     MessageEq(callArg[p[1]], callArg[p[2]], callArg.hashMode)]
    /\ callDone' = TRUE
    /\ UNCHANGED callArg
    /\ UNCHANGED outsideCall

RelationInit ==
    /\ LockIdle /\ LocIdle /\ BfsIdle /\ ItemFresh /\ CacheIdle
    /\ rawText = <<>>
    /\ callArg \in RelationCalls
    /\ callRet = <<>>
    /\ callDone = FALSE

RelationNext == MsgCompare

SpecRelation == RelationInit /\ [][RelationNext]_vars

\* C33: == on messages is reflexive, symmetric and transitive, with hash
\* mode on and off, whether the records carry an external id or not.
C33_Equivalence ==
    (callArg.fn = "relation" /\ callDone) =>
        /\ \A x \in {"a", "b", "c"} : callRet[<<x, x>>]
        /\ \A x, y \in {"a", "b", "c"} : callRet[<<x, y>>] => callRet[<<y, x>>]
        /\ (callRet[<<"a", "b">>] /\ callRet[<<"b", "c">>]) => callRet[<<"a", "c">>]

(***************************************************************************)
(* A parse of a post after a parse that failed.                            *)
(***************************************************************************)

\* the fields a parse that never failed gives the post: _ensure_parsed run
\* on the fields MomentItem.__init__ has set
FreshParse(text) ==
    LET lines == TrimmedLines(text)
        body == IF lines = <<>> THEN <<>> ELSE Tail(lines)
        st == CollectComments(body, ParseLoop(body, 1,
                 [time |-> <<>>, image |-> 0, ad |-> FALSE, likes |-> <<>>,
                  body |-> <<>>, comments |-> <<>>, handled |-> <<>>]))
    IN  [nickname |-> IF lines # <<>> THEN lines[1] ELSE <<>>,
         time |-> st.time,
         content |-> Strip(Join(st.body)),
         likes |-> st.likes,
         comments |-> SelectSeq(st.comments, NonBlank),
         image_count |-> st.image,
         is_advertisement |-> st.ad]

\* C34: a parse interrupted by an error of the binding leaves the post
\* unparsed, and the post, once parsed, has the publisher, timestamp, body,
\* likes, comments, image count and advertisement flag of a parse of its
\* text that never failed.
C34_ParseRetry ==
    /\ [](parsed =>
            [nickname |-> nickname, time |-> itemTime, content |-> content,
             likes |-> likesLine, comments |-> commentLines,
             image_count |-> imageCount, is_advertisement |-> isAd]
                = FreshParse(rawText))
    /\ [][failures' # failures => ~parsed']_vars

(***************************************************************************)
(* The action menu and the comment dialog of a post.                       *)
(***************************************************************************)

\* the places of an interaction in a log
Places(log, ev) == {i \in 1..Len(log) : log[i] = ev}

\* the interactions with the comment dialog
DialogEvents ==
    {"locate_dialog", "focus", "select_all", "clipboard_set", "paste", "click_send",
     "enter", "x", "y"}

\* C37: when Like or Comment has opened the action menu, Escape is sent to
\* the menu exactly once, after the click on the like or comment button if
\* there was one, whether that attempt succeeded, failed or raised, and
\* before the comment dialog is looked up.
C37_MenuDismissed ==
    (/\ callArg.fn \in {"Like", "Comment"}
     /\ callDone
     /\ callArg.fn = "Comment" => callArg.reply_to = <<>>
     /\ InvokeActionMenu(Run0, callArg.env, callArg.at).v = "menu")
        => /\ Cardinality(Places(callRet.log, "esc")) = 1
           /\ \A i \in Places(callRet.log, "esc"), j \in 1..Len(callRet.log) :
                 /\ callRet.log[j] \in {"click_like", "click_comment"} => j < i
                 /\ callRet.log[j] \in DialogEvents => i < j

\* the click on the like button has raised and the menu has been closed
C37_Witness ==
    /\ callArg.fn = "Like" /\ callDone
    /\ callRet.result = "raised"
    /\ callRet.log = <<"click_action", "click_like", "esc">>

\* A child of the menu: its control type and its caption, "Z" for the like
\* keyword, "Q" for the cancel keyword, "C" for the comment keyword.
MenuKids == [type : {"ButtonControl", "TextControl"}, name : {"Z", "Q", "C"}]

\* MomentActionMenu._find_button(names): the first child, in child order,
\* that is a button with one of the names; 0 for None
FindButton(kids, names) ==
    LET hits == {i \in 1..Len(kids) :
                    kids[i].type = "ButtonControl" /\ kids[i].name \in names}
    IN  IF hits = {} THEN 0 ELSE CHOOSE i \in hits : \A j \in hits : i <= j

\* MomentActionMenu.like(cancel): the result and the child clicked
MenuLike(kids, cancel) ==
    LET button == FindButton(kids, IF cancel THEN {"Q", "Z"} ELSE {"Z"})
    IN  [result |-> IF button = 0 THEN "failure" ELSE "success", clicked |-> button]

\* Moment.Comment(item, content) on a post whose comment dialog appears
\* appearAt ticks after the click on the comment button: the dialog is
\* looked up once, at the click.
CommentAwaited(env, text, appearAt) ==
    Comment([env EXCEPT !["dialogFound"] = (appearAt = 0)], 0, text, <<>>)

MenuCalls ==
    {[fn |-> "like", kids |-> k, cancel |-> c] :
        k \in SeqsUpTo(MenuKids, MaxButtons), c \in BOOLEAN}
    \cup {[fn |-> "CommentAwaited", env |-> e, text |-> t, appearAt |-> a] :
            e \in EnvsOver(Flags \ {"hasComment", "hasCtrl", "dialogFound"}),
            t \in CommentTexts \ {<<>>}, a \in 0..MaxAppear}

CallMenuLike ==
    /\ callArg.fn = "like"
    /\ Ended(MenuLike(callArg.kids, callArg.cancel))

CallCommentAwaited ==
    /\ callArg.fn = "CommentAwaited"
    /\ Ended(CommentAwaited(callArg.env, callArg.text, callArg.appearAt))

MenuInit ==
    /\ LockIdle /\ LocIdle /\ BfsIdle /\ ItemFresh /\ CacheIdle
    /\ rawText = <<>>
    /\ callArg \in MenuCalls
    /\ callRet = <<>>
    /\ callDone = FALSE

MenuNext ==
    \/ CallMenuLike
    \/ CallCommentAwaited

SpecMenu == MenuInit /\ [][MenuNext]_vars

\* the buttons of the menu with this caption
Captioned(kids, name) ==
    {i \in 1..Len(kids) : kids[i].type = "ButtonControl" /\ kids[i].name = name}

\* C35: like(cancel=False) clicks a button captioned with the like keyword
\* or nothing; like(cancel=True) clicks a button captioned with the cancel
\* keyword whenever the menu has one, in whatever order its children are;
\* with no allowed button nothing is clicked and failure is returned.
C35_ButtonChoice ==
    (callArg.fn = "like" /\ callDone) =>
        LET likes == Captioned(callArg.kids, "Z")
            cancels == Captioned(callArg.kids, "Q")
            allowed == IF callArg.cancel THEN likes \cup cancels ELSE likes
        IN  /\ callRet.clicked # 0 => callRet.clicked \in allowed
            /\ (callArg.cancel /\ cancels # {}) => callRet.clicked \in cancels
            /\ allowed = {} => (callRet.clicked = 0 /\ callRet.result = "failure")
            /\ allowed # {} => callRet.result = "success"

\* C38: when the buttons, the input box and the content are there and the
\* comment dialog appears within the wait that follows the click on the
\* comment button, the comment is sent; failure for a missing dialog is
\* returned only when it did not appear during the whole wait.
C38_DialogAwaited ==
    (/\ callArg.fn = "CommentAwaited" /\ callDone
     /\ callArg.env["menuFound"] /\ callArg.env["hasTarget"] /\ callArg.env["editFound"])
        => (callRet.result = "success" <=> callArg.appearAt <= DialogWait)

(***************************************************************************)
(* ui/sessionbox.py: the loop of SessionBox.open_separate_window.  The     *)
(* list of sessions is the environment: the sessions inside the window are *)
(* none ("empty"), or the first of them starts with the name switch_chat   *)
(* returned ("match") or does not ("other"), and the list may change at    *)
(* any time.  The iterations of the loop are counted modulo MaxSpins.      *)
(***************************************************************************)
VisibleKinds == {"empty", "match", "other"}

WindowCalls ==
    {[fn |-> "open_window", items |-> is, keywords |-> k] :
        is \in SeqsUpTo(ItemTexts, MaxItems), k \in Keywords}

Position(at, result, first, spins) ==
    [pc |-> at, result |-> result, first |-> first, spins |-> spins]

\* realname = self.switch_chat(name); if not realname: return failure
OpenSwitchChat ==
    /\ callArg.fn = "open_window"
    /\ callRet = <<>>
    /\ ~callDone
    /\ \E found \in {SwitchChat(callArg.items, callArg.keywords, TRUE)} :
       \E first \in VisibleKinds :
          IF found.result = "None" \/ found.value = <<>>
          THEN /\ callRet' = Position("done", "failure", first, 0)
               /\ callDone' = TRUE
          ELSE /\ callRet' = Position("loop", "none", first, 0)
               /\ callDone' = FALSE
    /\ UNCHANGED callArg
    /\ UNCHANGED outsideCall

\* one iteration of `while True`: [...][0], then startswith(realname)
OpenIterate ==
    /\ callArg.fn = "open_window"
    /\ callRet # <<>>
    /\ callRet.pc = "loop"
    /\ CASE callRet.first = "empty" ->
                callRet' = [callRet EXCEPT !.pc = "done", !.result = "raised"]
         [] callRet.first = "match" ->
                callRet' = [callRet EXCEPT !.pc = "done", !.result = "success"]
         [] callRet.first = "other" ->
                callRet' = [callRet EXCEPT !.spins = (@ + 1) % MaxSpins]
    /\ callDone' = (callRet.first # "other")
    /\ UNCHANGED callArg
    /\ UNCHANGED outsideCall

\* the list of sessions changes while the loop runs
ListChanges ==
    /\ callArg.fn = "open_window"
    /\ callRet # <<>>
    /\ callRet.pc = "loop"
    /\ \E first \in VisibleKinds \ {callRet.first} :
          callRet' = [callRet EXCEPT !.first = first]
    /\ UNCHANGED <<callArg, callDone>>
    /\ UNCHANGED outsideCall

WindowInit ==
    /\ LockIdle /\ LocIdle /\ BfsIdle /\ ItemFresh /\ CacheIdle
    /\ rawText = <<>>
    /\ callArg \in WindowCalls
    /\ callRet = <<>>
    /\ callDone = FALSE

WindowNext ==
    \/ OpenSwitchChat
    \/ OpenIterate
    \/ ListChanges

\* the thread that called open_separate_window keeps running
SpecWindow ==
    WindowInit /\ [][WindowNext]_vars /\ WF_vars(OpenSwitchChat) /\ WF_vars(OpenIterate)

\* C36: open_separate_window ends, by a result or by an error, whatever
\* the list of sessions does.
C36_Terminates == <>callDone

====
